---- MODULE Spec2Model ----
(***************************************************************************)
(* Verification model of the device-control core of robosla-agent.         *)
(*                                                                         *)
(*   Spec       the serial downlink actor DFADownlink (src/realsense.go)   *)
(*   SpecRD     the line-numbered downlink RealDownlink                    *)
(*              (src/unnamed/part_014)                                     *)
(*   SpecShell  the job slot of the Shell (src/shell.go)                   *)
(*   SpecExe    one call of Executor.ExecuteGcode (src/executor.go)        *)
(*   SpecGcode  gcode.AddLineAndHash (src/gcode/gcode.go)                  *)
(*   SpecTS     Shell.processGcodeUpdates (src/shell.go)                   *)
(*   SpecUR3    the URScript downlink actor UR3Downlink (src/ur3.go)       *)
(*   SpecCS     CombinedSnapshotter.TakeSnapshot (src/snapshot.go)         *)
(*   SpecTraffic  RealDownlink.handleTraffic alone, link up                *)
(*   SpecNotify  Uplink.Notify and Uplink.runNotify (src/uplink.go)        *)
(*   SpecHeld   Spec with the requests queued at a disconnect recorded     *)
(*   FairSpec   Spec without cancellation, with fairness, for liveness     *)
(*                                                                         *)
(* Every goroutine is a process with a program counter; a send on the      *)
(* unbuffered request channel is a rendezvous: the sender is parked as     *)
(* "posting"/"sending" until the actor takes its message.                  *)
(***************************************************************************)
EXTENDS Integers, Sequences, FiniteSets, TLC

\* ---------------------------------------------------------------- bounds
MaxCalls == 3       \* WriteAndWaitForOK calls made by the callers
MaxConnects == 2    \* connections connect may open; the last one is not lost
MaxLineno == 1      \* largest line number the device puts in "ok <n>"

MaxEntries == 4     \* entries the Shell dispatches

MaxRDCalls == 2     \* WriteAndWaitForOK calls made on the RealDownlink
MaxRDConnects == 2  \* connections RealDownlink.Run may open
MaxWire == 5        \* lines on the serial port beyond which no Resend is read

MaxCmds == 3        \* instructions of a program ExecuteGcode runs
MaxFrame == 2       \* largest frame index S of an M7820
MaxRetries == 1     \* times ExecuteGcode writes an instruction again

MaxGcLineno == 12   \* largest line number given to AddLineAndHash
MaxGcLen == 2       \* longest text drawn from GcAlphabet

MaxTS == 3          \* largest ts of an entry of a ts.gcode document
MaxDocLen == 2      \* entries of a ts.gcode document

MaxURCalls == 2     \* WriteAndWaitForOK calls made on the UR3Downlink
MaxURConnects == 2  \* connections UR3Downlink.connect may open

MaxTrafficLineno == 3  \* line numbers handleTraffic is asked to send

MaxNotes == 5       \* messages handed to Uplink.Notify

MaxSnaps == 3       \* snapshotters in the map of a CombinedSnapshotter
MaxNumFrames == 2   \* largest numFrames given to TakeSnapshot

Calls == 1..MaxCalls

RDCalls == 1..MaxRDCalls

\* The line numbers that occur: takeLineno gives call c a number <= c.
Linenos == 1..MaxRDCalls

Entries == 1..MaxEntries

VARIABLES
    \* --- DFADownlink actor (src/realsense.go)
    st,             \* State of Run's loop
    gotOK,          \* locals of handleWaitingForOK
    gotWritten,
    gotSomeReply,
    pendingOKAck,   \* dl.pendingOKAck: the call whose RespCh it is, 0 = nil
    pendingWrites,  \* dl.pendingWrites: queue of calls
    connOpen,       \* dl.conn is open (not yet closed by the reader)
    epoch,          \* number of connections opened so far
    connectPc,      \* goroutine connect()
    readerPc,       \* goroutine readFromDevice()
    writerPc,       \* goroutines write(), one slot per call
    writerErr,      \* err of the write of that call
    callPc,         \* callers of WriteAndWaitForOK
    callRes,        \* what WriteAndWaitForOK returned
    chBuf,          \* respCh of each call: buffered values (capacity 1)
    chClosed,       \* respCh of each call: closed
    chHist,         \* every value ever sent on respCh of each call
    chFault,        \* a channel operation that panics or blocks the actor
    wire,           \* lines written to the transport: [conn, call]
    heldOver,       \* requests that were in pendingWrites at a disconnect
    observe,        \* heldOver is recorded (SpecHeld) or left empty
    \* --- Shell job slot (src/shell.go)
    curJobCancel,   \* sh.curJobCancel: the job whose context it cancels, 0 = nil
    entryStatus,    \* what became of each dispatched entry
    jobPc,          \* the job goroutine started for an entry
    ctxDone,        \* the context of the job is cancelled
    fetchRes,       \* what FetchJob returned in the job goroutine
    execRes,        \* what ExecuteGcode returned in the job goroutine
    jobErr,         \* the variable err of the job goroutine
    jobDone,        \* the JobDone notifications sent for each entry
    \* --- RealDownlink (src/unnamed/part_014)
    oks,            \* handleTraffic: line numbers with oks[n] = true
    waits,          \* handleTraffic: line number -> call waiting, 0 = absent
    hist,           \* handleTraffic: line number -> text sent, NoText = absent
    resends,        \* handleTraffic: line numbers with resends[n] = true
    lastWriteWasAResend,
    lastResendLineno,
    lastOKLineno,
    neverWaitForOK,
    lineno,         \* dl.lineno
    conn,           \* dl.conn: the connection opened last, 0 = nil
    linkUp,         \* the device behind dl.conn still answers
    runPc,          \* RealDownlink.Run
    rdReaderPc,     \* goroutine RealDownlink.readFromDevice
    rdCallPc,       \* callers of RealDownlink.WriteAndWaitForOK
    rdCallLineno,   \* the line number takeLineno gave the call
    rdCallRes,      \* what WriteAndWaitForOK returned
    ackBuf,         \* ackCh of each call: buffered values (capacity 1)
    ackClosed,      \* ackCh of each call: closed
    rdWire,         \* lines written to the serial port opened last
    \* --- Executor.ExecuteGcode (src/executor.go)
    cmds,           \* the program loadGcode returns for gcodePath
    exePc,          \* where ExecuteGcode stands
    exeI,           \* the loop variable i (counts from 0)
    exeCtxDone,     \* the context handed to ExecuteGcode is cancelled
    armed,          \* the deferred abort function is registered
    lastProgress,   \* the variable lastProgress, in hundredths
    progressLog,    \* progress values passed to NotifyJobProgress
    frameLog,       \* NotifyFrameIndex notifications
    submitted,      \* calls of WriteAndWaitForOK, in order
    exeAcked,          \* instructions whose WriteAndWaitForOK returned nil
    homePc,         \* the homing goroutine
    retries,        \* times the loop wrote an instruction again
    exeRes,         \* what ExecuteGcode returned
    \* --- gcode.AddLineAndHash (src/gcode/gcode.go)
    gcLineno,       \* the argument lineno
    gcText,         \* the argument gcode, as its bytes
    gcOut,          \* the string returned, as its bytes; <<>> before the call
    \* --- Shell.Run / Shell.processGcodeUpdates (src/shell.go)
    lastTS,         \* the variable lastTS of Shell.Run
    tsDoc,          \* the ts values of resp.TS.Gcode of the last document
    tsArg,          \* the argument lastTS of the last call
    tsBatch,        \* positions of tsDoc whose verb the last call dispatched
    tsLog,          \* the ts of every entry dispatched so far, in order
    \* --- UR3Downlink actor (src/ur3.go)
    urSt,           \* State of Run's loop
    urAck,          \* dl.pendingOKAck: the call whose RespCh it is, 0 = nil
    urQueue,        \* dl.pendingWrites: queue of calls
    urProbe,        \* the last reply to a Connected() probe
    urConnOpen,     \* dl.conn is open and the robot behind it answers
    urEpoch,        \* number of connections opened so far
    urConnectPc,    \* goroutine connect
    urReaderPc,     \* goroutine readFromDevice
    urWriterPc,     \* goroutine write of each call
    urWriteRes,     \* what dl.conn.Write returned for the call: none/ok/error
    urCallPc,       \* callers of WriteAndWaitForOK
    urCallRes,      \* what WriteAndWaitForOK returned
    urChBuf,        \* respCh of each call: buffered values (capacity 1)
    urChClosed,     \* respCh of each call: closed
    urFault,        \* a channel operation that panics or blocks the actor
    \* --- CombinedSnapshotter.TakeSnapshot (src/snapshot.go)
    csPc,           \* the call: idle / waiting (wg.Wait) / returned / crashed
    csNumFrames,    \* argument numFrames
    csSnaps,        \* names of cs.Snaps
    csSnapPc,       \* goroutine of each snapshotter
    csSnapErr,      \* the snapshotter returned an error
    csRaced,        \* goroutines whose map write overlapped another one
    csErrs,         \* names that are keys of the map errs
    csRes,          \* what TakeSnapshot returned: none / nil / error
    \* --- Uplink.Notify / Uplink.runNotify (src/uplink.go)
    ntNext,         \* number of messages handed to Notify so far
    notifyCh,       \* up.notifyCh: buffered messages, oldest first
    pending,        \* local pending of runNotify
    inProgress,     \* local inProgress of runNotify
    ntSendPc,       \* the goroutine sending each message
    ntHeld          \* messages that were put in pending

dfaVars == <<st, gotOK, gotWritten, gotSomeReply, pendingOKAck,
             pendingWrites, connOpen, epoch, connectPc, readerPc,
             writerPc, writerErr, callPc, callRes, chBuf, chClosed, chHist,
             chFault, wire, heldOver, observe>>

shellVars == <<curJobCancel, entryStatus, jobPc, ctxDone, fetchRes, execRes,
               jobErr, jobDone>>

rdVars == <<oks, waits, hist, resends, lastWriteWasAResend, lastResendLineno,
            lastOKLineno, neverWaitForOK, lineno, conn, linkUp, runPc,
            rdReaderPc, rdCallPc, rdCallLineno, rdCallRes, ackBuf, ackClosed,
            rdWire>>

exeVars == <<cmds, exePc, exeI, exeCtxDone, armed, lastProgress,
             progressLog, frameLog, submitted, exeAcked, homePc, retries,
             exeRes>>

gcVars == <<gcLineno, gcText, gcOut>>

tsVars == <<lastTS, tsDoc, tsArg, tsBatch, tsLog>>

urVars == <<urSt, urAck, urQueue, urProbe, urConnOpen, urEpoch, urConnectPc,
            urReaderPc, urWriterPc, urWriteRes, urCallPc, urCallRes,
            urChBuf, urChClosed, urFault>>

csVars == <<csPc, csNumFrames, csSnaps, csSnapPc, csSnapErr, csRaced, csErrs,
            csRes>>

ntVars == <<ntNext, notifyCh, pending, inProgress, ntSendPc, ntHeld>>

otherThanDFA == <<shellVars, rdVars, exeVars, gcVars, tsVars, urVars,
    csVars,
    ntVars>>

otherThanShell == <<dfaVars, rdVars, exeVars, gcVars, tsVars, urVars,
    csVars,
    ntVars>>

otherThanRD == <<dfaVars, shellVars, exeVars, gcVars, tsVars, urVars,
    csVars,
    ntVars>>

otherThanExe == <<dfaVars, shellVars, rdVars, gcVars, tsVars, urVars,
    csVars,
    ntVars>>

otherThanGc == <<dfaVars, shellVars, rdVars, exeVars, tsVars, urVars,
    csVars,
    ntVars>>

otherThanTS == <<dfaVars, shellVars, rdVars, exeVars, gcVars, urVars,
    csVars,
    ntVars>>

otherThanUR == <<dfaVars, shellVars, rdVars, exeVars, gcVars, tsVars, csVars,
    ntVars>>

otherThanCS == <<dfaVars, shellVars, rdVars, exeVars, gcVars, tsVars, urVars,
    ntVars>>

otherThanNt == <<dfaVars, shellVars, rdVars, exeVars, gcVars, tsVars, urVars,
    csVars>>

vars == <<dfaVars, shellVars, rdVars, exeVars, gcVars, tsVars, urVars, csVars,
         ntVars>>

\* ------------------------------------------------------------ messages
\* DFAMsg{Type, Lineno, Cmd, Err, RespCh}; call identifies Cmd and RespCh.
Msg(t, n, c, e) == [type |-> t, lineno |-> n, call |-> c, err |-> e]

NoMsg == Msg("none", 0, 0, FALSE)

\* The request WriteAndWaitForOK builds: Lineno is left at its zero value.
WriteMsg(c) == Msg("WriteAndWaitForOK", 0, c, FALSE)

\* What readFromDevice posts for one line read from the device.
DeviceMsgs ==
    {Msg("OK", n, 0, FALSE) : n \in 0..MaxLineno}
        \cup {Msg("Resend", n, 0, FALSE) : n \in 1..MaxLineno}
        \cup {Msg("SomeReply", 0, 0, FALSE)}

\* The call whose request the actor receives next: calls are numbered in
\* the order in which the actor receives their requests.
NextCall == {c \in Calls : callPc[c] = "idle" /\ \A d \in 1..(c - 1) : callPc[d] # "idle"}

\* The messages the actor can receive from dl.reqCh: what a goroutine is
\* blocked sending, the next line the reader scans (it posts it before it
\* reads on), the request of the next WriteAndWaitForOK call, and the
\* request of a Connected() call, whose caller reads the reply at once.
Offered ==
    {Msg("Connected", 0, 0, FALSE) : x \in {y \in {1} : connectPc = "posting"}}
        \cup {m \in DeviceMsgs : readerPc = "reading"}
        \cup {Msg("Disconnected", 0, 0, FALSE) :
                x \in {y \in {1} : readerPc = "posting"}}
        \cup {Msg("Written", 0, c, writerErr[c]) :
                c \in {d \in Calls : writerPc[d] = "posting"}}
        \cup {WriteMsg(c) : c \in NextCall}
        \cup {Msg("IsConnected", 0, 0, FALSE)}

\* ------------------------------------------------- outcome of a handler
\* What one pass of a handler does: the state it returns (or stays in),
\* the new locals and fields, one operation on a reply channel, the write
\* task it starts and the answer to an IsConnected request.
Stay ==
    [next |-> st, gotOK |-> gotOK, gotWritten |-> gotWritten,
     gotSomeReply |-> gotSomeReply, ack |-> pendingOKAck,
     queue |-> pendingWrites, op |-> "none", to |-> 0, val |-> FALSE,
     write |-> 0, probe |-> "none"]

\* Uplink.Fatalf: log and os.Exit(1); the actor never continues.
Fatalf == [Stay EXCEPT !.next = "Terminated"]

Send(o, c, v) == [o EXCEPT !.op = "send", !.to = c, !.val = v]

Close(o, c) == [o EXCEPT !.op = "close", !.to = c]

\* handleConnecting, one message.
handleConnecting(m) ==
    CASE m.type = "Connected" -> [Stay EXCEPT !.next = "Connected"]
      [] m.type = "IsConnected" -> [Stay EXCEPT !.probe = "false"]
      [] m.type = "Disconnected" -> Fatalf
      [] m.type = "OK" -> Fatalf
      [] m.type = "WriteAndWaitForOK" -> Send(Stay, m.call, FALSE)
      [] m.type = "Written" -> Fatalf
      [] m.type = "Resend" -> Fatalf
      [] m.type = "SomeReply" -> Stay
      [] OTHER -> Fatalf

\* Faulty variant: wr answers the caller at once and stashes the channel too.
wr_RepliesAtOnce(c, q) ==
    [Stay EXCEPT !.ack = c, !.write = c, !.queue = q,
                 !.next = "WaitingForOK", !.gotOK = FALSE,
                 !.gotWritten = FALSE, !.gotSomeReply = FALSE,
                 !.op = "send", !.to = c, !.val = FALSE]

\* The closure wr of handleNormal: stash the reply channel, start the write
\* task, go to WaitingForOK (whose locals start false).
wr(c, q) ==
    [Stay EXCEPT !.ack = c, !.write = c, !.queue = q,
                 !.next = "WaitingForOK", !.gotOK = FALSE,
                 !.gotWritten = FALSE, !.gotSomeReply = FALSE]

\* Faulty variant: handleNormal takes the newest pending write.
NextPendingWrite_Newest(q) == Len(q)

\* The pending write handleNormal takes: the oldest.
NextPendingWrite(q) == 1

RemoveAt(q, i) == [j \in 1..(Len(q) - 1) |-> IF j < i THEN q[j] ELSE q[j + 1]]

\* handleNormal with a non-empty pendingWrites: no message is received.
handleNormalPending ==
    LET i == NextPendingWrite(pendingWrites)
    IN  wr(pendingWrites[i], RemoveAt(pendingWrites, i))

\* handleNormal, one message.
handleNormal(m) ==
    CASE m.type = "Connected" -> Fatalf
      [] m.type = "IsConnected" -> [Stay EXCEPT !.probe = "true"]
      [] m.type = "Disconnected" -> [Stay EXCEPT !.next = "Disconnected"]
      [] m.type = "OK" -> Stay
      [] m.type = "WriteAndWaitForOK" -> wr(m.call, pendingWrites)
      [] m.type = "Written" -> Fatalf
      [] m.type = "Resend" -> Fatalf
      [] m.type = "SomeReply" -> Stay
      [] OTHER -> Fatalf

\* Faulty variant: handleWaitingForOK does not wait for the write to finish.
AfterDisconnect_Eager(written) == "Disconnected"

\* Where handleWaitingForOK goes on MsgDisconnected.
AfterDisconnect(written) ==
    IF written THEN "Disconnected" ELSE "WaitingForWritten"

\* Faulty variant: handleWaitingForOK starts the further write at once.
queueWrite_StartsWrite(o, c) == [o EXCEPT !.write = c, !.ack = c]

\* What handleWaitingForOK does with a further MsgWriteAndWaitForOK: it is
\* appended to dl.pendingWrites.
queueWrite(o, c) == [o EXCEPT !.queue = Append(o.queue, c)]

\* handleWaitingForOK, one message; late: more than ten seconds have passed
\* since the handler was entered (dur > 10*time.Second).
handleWaitingForOK(m, late) ==
    LET ok1 == gotOK \/ (late /\ gotSomeReply /\ ~gotOK)
        base == [Stay EXCEPT !.gotOK = ok1]
        acked == [Send(base, pendingOKAck, TRUE) EXCEPT
                     !.ack = 0, !.next = "Normal", !.gotOK = TRUE,
                     !.gotWritten = TRUE]
    IN  CASE m.type = "Connected" -> Fatalf
          [] m.type = "IsConnected" -> [base EXCEPT !.probe = "true"]
          [] m.type = "Disconnected" ->
                [Close(base, pendingOKAck) EXCEPT
                    !.ack = 0, !.next = AfterDisconnect(gotWritten)]
          [] m.type = "OK" ->
                IF ok1 THEN base
                ELSE IF gotWritten THEN acked
                ELSE [base EXCEPT !.gotOK = TRUE]
          [] m.type = "WriteAndWaitForOK" ->
                queueWrite(base, m.call)
          [] m.type = "Written" ->
                IF gotWritten THEN Fatalf
                ELSE IF ok1 THEN acked
                ELSE [base EXCEPT !.gotWritten = TRUE]
          [] m.type = "Resend" -> Fatalf
          [] m.type = "SomeReply" -> [base EXCEPT !.gotSomeReply = TRUE]
          [] OTHER -> Fatalf

\* Faulty variant: handleWaitingForWritten does not leave on MsgWritten.
handleWaitingForWritten_Stays(m) ==
    CASE m.type = "WriteAndWaitForOK" -> Send(Stay, m.call, FALSE)
      [] m.type = "IsConnected" -> [Stay EXCEPT !.probe = "false"]
      [] OTHER -> Stay

\* handleWaitingForWritten, one message.
handleWaitingForWritten(m) ==
    CASE m.type = "Connected" -> Fatalf
      [] m.type = "IsConnected" -> [Stay EXCEPT !.probe = "false"]
      [] m.type = "Disconnected" -> Fatalf
      [] m.type = "OK" -> Fatalf
      [] m.type = "WriteAndWaitForOK" -> Send(Stay, m.call, FALSE)
      [] m.type = "Written" -> [Stay EXCEPT !.next = "Disconnected"]
      [] m.type = "Resend" -> Fatalf
      [] m.type = "SomeReply" -> Stay
      [] OTHER -> Fatalf

\* ------------------------------------------------------ the actor's step
\* A send or a close on the reply channel of call c that Go cannot carry
\* out: a nil channel, a closed channel, or a full buffer (the actor blocks).
Misuse(o) ==
    /\ o.op # "none"
    /\ \/ o.to = 0
       \/ chClosed[o.to]
       \/ o.op = "send" /\ Len(chBuf[o.to]) >= 1

\* The actor takes message m (NoMsg: none) and carries out outcome o.  The
\* locals of handleWaitingForOK exist only while that handler runs: they
\* are false in every other state.
Apply(m, o) ==
    /\ st' = o.next
    /\ gotOK' = (o.next = "WaitingForOK" /\ o.gotOK)
    /\ gotWritten' = (o.next = "WaitingForOK" /\ o.gotWritten)
    /\ gotSomeReply' = (o.next = "WaitingForOK" /\ o.gotSomeReply)
    /\ pendingOKAck' = o.ack
    /\ pendingWrites' = o.queue
    /\ chFault' = (chFault \/ Misuse(o))
    /\ chBuf' = IF o.op = "send" /\ ~Misuse(o)
                THEN [chBuf EXCEPT ![o.to] = Append(@, o.val)] ELSE chBuf
    /\ chHist' = IF o.op = "send" /\ ~Misuse(o)
                 THEN [chHist EXCEPT ![o.to] = Append(@, o.val)] ELSE chHist
    /\ chClosed' = IF o.op = "close" /\ ~Misuse(o)
                   THEN [chClosed EXCEPT ![o.to] = TRUE] ELSE chClosed
    /\ writerPc' = IF o.write # 0
                   THEN [writerPc EXCEPT ![o.write] = "writing"]
                   ELSE IF m.type = "Written"
                   THEN [writerPc EXCEPT ![m.call] = "none"]
                   ELSE writerPc
    /\ connectPc' = IF m.type = "Connected" THEN "idle" ELSE connectPc
    /\ readerPc' = IF m.type = "Disconnected" THEN "none" ELSE readerPc
    /\ callPc' = IF m.type = "WriteAndWaitForOK"
                 THEN [callPc EXCEPT ![m.call] = "waiting"] ELSE callPc
    /\ heldOver' = IF observe /\ o.next = "Disconnected"
                   THEN heldOver \cup {o.queue[i] : i \in DOMAIN o.queue}
                   ELSE heldOver
    /\ UNCHANGED observe
    /\ UNCHANGED <<connOpen, epoch, writerErr, callRes, wire>>

\* --------------------------------------------------------------- actions
\* os.Exit(1) in Fatalf ends every goroutine of the process.
Alive == st # "Terminated"

\* handleDisconnected: go dl.connect(); return Connecting.
HandleDisconnected ==
    /\ st = "Disconnected"
    /\ st' = "Connecting"
    /\ connectPc' = "trying"
    /\ UNCHANGED <<gotOK, gotWritten, gotSomeReply, pendingOKAck,
                   pendingWrites, connOpen, epoch, readerPc, writerPc, writerErr, callPc, callRes, chBuf, chClosed,
                   chHist, chFault, wire, heldOver, observe>>
    /\ UNCHANGED otherThanDFA

\* connect: the device is found and opened; dl.conn = conn; then the
\* goroutine blocks posting MsgConnected.
Connect ==
    /\ Alive
    /\ connectPc = "trying"
    /\ epoch < MaxConnects
    /\ connOpen' = TRUE
    /\ epoch' = epoch + 1
    /\ connectPc' = "posting"
    /\ UNCHANGED <<st, gotOK, gotWritten, gotSomeReply,
                   pendingOKAck, pendingWrites, readerPc, writerPc, writerErr, callPc, callRes, chBuf, chClosed,
                   chHist, chFault, wire, heldOver, observe>>
    /\ UNCHANGED otherThanDFA

HandleConnecting ==
    /\ st = "Connecting"
    /\ \E m \in Offered : Apply(m, handleConnecting(m))
    /\ UNCHANGED otherThanDFA

\* handleConnected: go dl.readFromDevice(dl.conn); return Normal.
HandleConnected ==
    /\ st = "Connected"
    /\ st' = "Normal"
    /\ readerPc' = "reading"
    /\ UNCHANGED <<gotOK, gotWritten, gotSomeReply, pendingOKAck,
                   pendingWrites, connOpen, epoch, connectPc, writerPc, writerErr, callPc, callRes, chBuf, chClosed,
                   chHist, chFault, wire, heldOver, observe>>
    /\ UNCHANGED otherThanDFA

HandleNormal ==
    /\ st = "Normal"
    /\ IF Len(pendingWrites) > 0
       THEN Apply(NoMsg, handleNormalPending)
       ELSE \E m \in Offered : Apply(m, handleNormal(m))
    /\ UNCHANGED otherThanDFA

\* Whether more than ten seconds have passed since handleWaitingForOK was
\* entered (dur > 10*time.Second); the handler reads dur only together
\* with gotSomeReply && !gotOK, so it is left false elsewhere.
Elapsed == IF gotSomeReply /\ ~gotOK THEN BOOLEAN ELSE {FALSE}

HandleWaitingForOK ==
    /\ st = "WaitingForOK"
    /\ \E m \in Offered : \E late \in Elapsed :
            Apply(m, handleWaitingForOK(m, late))
    /\ UNCHANGED otherThanDFA

HandleWaitingForWritten ==
    /\ st = "WaitingForWritten"
    /\ \E m \in Offered : Apply(m, handleWaitingForWritten(m))
    /\ UNCHANGED otherThanDFA

\* write: dl.conn.Write; on a closed connection the write fails, on an open
\* one it succeeds or fails. Then the goroutine blocks posting MsgWritten.
Write ==
    /\ Alive
    /\ \E c \in Calls :
        /\ writerPc[c] = "writing"
        /\ \E ok \in (IF connOpen THEN BOOLEAN ELSE {FALSE}) :
            /\ wire' = IF ok THEN Append(wire, [conn |-> epoch, call |-> c])
                       ELSE wire
            /\ writerErr' = [writerErr EXCEPT ![c] = ~ok]
        /\ writerPc' = [writerPc EXCEPT ![c] = "posting"]
    /\ UNCHANGED <<st, gotOK, gotWritten, gotSomeReply,
                   pendingOKAck, pendingWrites, connOpen, epoch, connectPc,
                   readerPc, callPc, callRes, chBuf, chClosed,
                   chHist, chFault, heldOver, observe>>
    /\ UNCHANGED otherThanDFA

\* readFromDevice: EOF or read error; the deferred function closes the
\* connection and posts MsgDisconnected.
ReadEOF ==
    /\ Alive
    /\ readerPc = "reading"
    /\ epoch < MaxConnects
    /\ connOpen' = FALSE
    /\ readerPc' = "posting"
    /\ UNCHANGED <<st, gotOK, gotWritten, gotSomeReply,
                   pendingOKAck, pendingWrites, epoch, connectPc, writerPc,
                   writerErr, callPc, callRes, chBuf, chClosed, chHist,
                   chFault, wire, heldOver, observe>>
    /\ UNCHANGED otherThanDFA

\* What WriteAndWaitForOK returns for what the select took from respCh.
ReturnFor(got) ==
    IF got = "closed" THEN "OKNotReceived" ELSE "nil"

\* WriteAndWaitForOK: the select takes a value, or the close, from respCh.
CallReturn ==
    /\ Alive
    /\ \E c \in Calls :
        /\ callPc[c] = "waiting"
        /\ Len(chBuf[c]) > 0 \/ chClosed[c]
        /\ callPc' = [callPc EXCEPT ![c] = "returned"]
        /\ IF Len(chBuf[c]) > 0
           THEN /\ callRes' = [callRes EXCEPT ![c] =
                      ReturnFor(IF Head(chBuf[c]) THEN "true" ELSE "false")]
                /\ chBuf' = [chBuf EXCEPT ![c] = Tail(@)]
           ELSE /\ callRes' = [callRes EXCEPT ![c] = ReturnFor("closed")]
                /\ UNCHANGED chBuf
    /\ UNCHANGED <<st, gotOK, gotWritten, gotSomeReply,
                   pendingOKAck, pendingWrites, connOpen, epoch, connectPc,
                   readerPc, writerPc, writerErr, chClosed,
                   chHist, chFault, wire, heldOver, observe>>
    /\ UNCHANGED otherThanDFA

\* WriteAndWaitForOK: the select takes ctx.Done().
CallCancel ==
    /\ Alive
    /\ \E c \in Calls :
        /\ callPc[c] = "waiting"
        /\ callPc' = [callPc EXCEPT ![c] = "returned"]
        /\ callRes' = [callRes EXCEPT ![c] = "Canceled"]
    /\ UNCHANGED <<st, gotOK, gotWritten, gotSomeReply,
                   pendingOKAck, pendingWrites, connOpen, epoch, connectPc,
                   readerPc, writerPc, writerErr, chBuf, chClosed,
                   chHist, chFault, wire, heldOver, observe>>
    /\ UNCHANGED otherThanDFA

\* The state after NewDFADownlink, before Run.
DFAStart ==
    /\ st = "Disconnected"
    /\ gotOK = FALSE
    /\ gotWritten = FALSE
    /\ gotSomeReply = FALSE
    /\ pendingOKAck = 0
    /\ pendingWrites = <<>>
    /\ connOpen = FALSE
    /\ epoch = 0
    /\ connectPc = "idle"
    /\ readerPc = "none"
    /\ writerPc = [c \in Calls |-> "none"]
    /\ writerErr = [c \in Calls |-> FALSE]
    /\ callPc = [c \in Calls |-> "idle"]
    /\ callRes = [c \in Calls |-> "none"]
    /\ chBuf = [c \in Calls |-> <<>>]
    /\ chClosed = [c \in Calls |-> FALSE]
    /\ chHist = [c \in Calls |-> <<>>]
    /\ chFault = FALSE
    /\ wire = <<>>
    /\ heldOver = {}

DFAInit == DFAStart /\ observe = FALSE

\* ------------------------------------------------------------------------
\* The Shell's job slot (src/shell.go). Entry e of the ts.gcode stream is
\* the e-th entry the Shell dispatches; the job goroutine started for an
\* accepted fetch-and-print entry is job e.
\* ------------------------------------------------------------------------
\* The entry dispatched next.
NextEntry == {e \in Entries : entryStatus[e] = "none"
                /\ \A d \in 1..(e - 1) : entryStatus[d] # "none"}

JobDone(success, comment) == [success |-> success, comment |-> comment]

\* getNewJobContext for entry e: an error when the slot is taken, else the
\* slot holds the cancel function of the new context.
getNewJobContext(cur, e) ==
    IF cur # 0 THEN [err |-> "job is already running", cur |-> cur]
    ELSE [err |-> "nil", cur |-> e]

\* Faulty variant: clearCurrentJob leaves the slot as it is.
clearCurrentJob_Keeps(cur) == cur

\* clearCurrentJob: sh.curJobCancel = nil.
clearCurrentJob(cur) == 0

\* Faulty variant: the result of ExecuteGcode is assigned to a shadowing variable.
errAfterExecute_Shadowed(err, res) == err

\* err = sh.exe.ExecuteGcode(...): the goroutine's err after the call.
errAfterExecute(err, res) == res

\* The comment and success flag the deferred function computes from err.
jobDoneFor(err) == JobDone(err = "nil", IF err = "nil" THEN "OK" ELSE err)

ShellInit ==
    /\ curJobCancel = 0
    /\ entryStatus = [e \in Entries |-> "none"]
    /\ jobPc = [e \in Entries |-> "none"]
    /\ ctxDone = [e \in Entries |-> FALSE]
    /\ fetchRes = [e \in Entries |-> "none"]
    /\ execRes = [e \in Entries |-> "none"]
    /\ jobErr = [e \in Entries |-> "nil"]
    /\ jobDone = [e \in Entries |-> <<>>]

\* processGcodeUpdates, verb fetch-and-print: take the slot and start the
\* job goroutine, or notify JobDone(false, "job is already running").
DispatchFetchAndPrint ==
    /\ \E e \in NextEntry :
        LET r == getNewJobContext(curJobCancel, e)
        IN  /\ curJobCancel' = r.cur
            /\ IF r.err # "nil"
               THEN /\ jobDone' = [jobDone EXCEPT
                                     ![e] = Append(@, JobDone(FALSE, r.err))]
                    /\ entryStatus' = [entryStatus EXCEPT ![e] = "rejected"]
                    /\ UNCHANGED jobPc
               ELSE /\ jobPc' = [jobPc EXCEPT ![e] = "fetch"]
                    /\ entryStatus' = [entryStatus EXCEPT ![e] = "accepted"]
                    /\ UNCHANGED jobDone
    /\ UNCHANGED <<ctxDone, fetchRes, execRes, jobErr>>
    /\ UNCHANGED otherThanShell

\* processGcodeUpdates, verb cancel: cancelJob empties the slot and cancels
\* the context whose cancel function it held.
DispatchCancel ==
    /\ \E e \in NextEntry :
        /\ entryStatus' = [entryStatus EXCEPT ![e] = "cancel"]
        /\ ctxDone' = IF curJobCancel # 0
                      THEN [ctxDone EXCEPT ![curJobCancel] = TRUE]
                      ELSE ctxDone
        /\ curJobCancel' = 0
    /\ UNCHANGED <<jobPc, fetchRes, execRes, jobErr, jobDone>>
    /\ UNCHANGED otherThanShell

\* Job goroutine: FetchJob returns; it fails on its own or, once the
\* context is cancelled, because getURL honours the context.
FetchJob ==
    /\ \E j \in Entries :
        /\ jobPc[j] = "fetch"
        /\ \E res \in {"nil", "failed to fetch a job"} :
            /\ fetchRes' = [fetchRes EXCEPT ![j] = res]
            /\ jobErr' = [jobErr EXCEPT ![j] = res]
            /\ jobPc' = [jobPc EXCEPT
                           ![j] = IF res = "nil" THEN "exec" ELSE "clear"]
    /\ UNCHANGED <<curJobCancel, entryStatus, ctxDone, execRes, jobDone>>
    /\ UNCHANGED otherThanShell

\* Job goroutine: the body of ExecuteGcode ends, with nil, with an error,
\* or with Canceled when the context is cancelled; an error after the
\* deferred abort function was registered runs the abort sequence first.
ExecuteGcode ==
    /\ \E j \in Entries :
        /\ jobPc[j] = "exec"
        /\ \E res \in {"nil", "failed to execute"}
                    \cup (IF ctxDone[j] THEN {"context canceled"} ELSE {}) :
            /\ execRes' = [execRes EXCEPT ![j] = res]
            /\ \E abort \in (IF res = "nil" THEN {FALSE} ELSE BOOLEAN) :
                 jobPc' = [jobPc EXCEPT
                             ![j] = IF abort THEN "abort" ELSE "assign"]
    /\ UNCHANGED <<curJobCancel, entryStatus, ctxDone, fetchRes, jobErr,
                   jobDone>>
    /\ UNCHANGED otherThanShell

\* Job goroutine: the abort sequence M107, G1 Z170 F200, M84 of
\* ExecuteGcode's deferred function ends.
AbortSequence ==
    /\ \E j \in Entries :
        /\ jobPc[j] = "abort"
        /\ jobPc' = [jobPc EXCEPT ![j] = "assign"]
    /\ UNCHANGED <<curJobCancel, entryStatus, ctxDone, fetchRes, execRes,
                   jobErr, jobDone>>
    /\ UNCHANGED otherThanShell

\* Job goroutine: ExecuteGcode has returned; its result is assigned to err.
AssignErr ==
    /\ \E j \in Entries :
        /\ jobPc[j] = "assign"
        /\ jobErr' = [jobErr EXCEPT ![j] = errAfterExecute(@, execRes[j])]
        /\ jobPc' = [jobPc EXCEPT ![j] = "clear"]
    /\ UNCHANGED <<curJobCancel, entryStatus, ctxDone, fetchRes, execRes,
                   jobDone>>
    /\ UNCHANGED otherThanShell

\* Job goroutine, deferred function: sh.clearCurrentJob().
ClearCurrentJob ==
    /\ \E j \in Entries :
        /\ jobPc[j] = "clear"
        /\ curJobCancel' = clearCurrentJob(curJobCancel)
        /\ jobPc' = [jobPc EXCEPT ![j] = "notify"]
    /\ UNCHANGED <<entryStatus, ctxDone, fetchRes, execRes, jobErr, jobDone>>
    /\ UNCHANGED otherThanShell

\* Job goroutine, deferred function: sh.up.NotifyJobDone(jobName, err ==
\* nil, comment); the goroutine ends.
NotifyJobDone ==
    /\ \E j \in Entries :
        /\ jobPc[j] = "notify"
        /\ jobDone' = [jobDone EXCEPT ![j] = Append(@, jobDoneFor(jobErr[j]))]
        /\ jobPc' = [jobPc EXCEPT ![j] = "done"]
    /\ UNCHANGED <<curJobCancel, entryStatus, ctxDone, fetchRes, execRes,
                   jobErr>>
    /\ UNCHANGED otherThanShell

ShellNext ==
    \/ DispatchFetchAndPrint
    \/ DispatchCancel
    \/ FetchJob
    \/ ExecuteGcode
    \/ AbortSequence
    \/ AssignErr
    \/ ClearCurrentJob
    \/ NotifyJobDone

\* ------------------------------------------------------------------------
\* RealDownlink (src/unnamed/part_014): Run, readFromDevice, the callers of
\* WriteAndWaitForOK and the goroutine handleTraffic, which receives one
\* Request at a time from the unbuffered dl.reqCh.
\* ------------------------------------------------------------------------
\* A line of text: gcode.AddLineAndHash(n, cmd), or cmd as it is (n = 0).
\* cmd is the number of the call whose command it is, or a literal.
Framed(n, cmd) == [n |-> n, cmd |-> cmd]

Bare(cmd) == [n |-> 0, cmd |-> cmd]

NoText == Bare("")

OnWire(text, isResend) == [text |-> text, resend |-> isResend]

\* The closure send of handleTraffic, applied to state t = [wire,
\* lastWriteWasAResend, lastResendLineno, ok]; the write succeeds when
\* written. t.ok is what send returned.
send(t, n, text, isResend, written) ==
    IF isResend /\ n \in resends THEN [t EXCEPT !.ok = TRUE]
    ELSE IF ~written THEN [t EXCEPT !.ok = FALSE]
    ELSE [wire |-> Append(t.wire, OnWire(text, isResend)),
          lastWriteWasAResend |-> isResend,
          lastResendLineno |-> IF isResend THEN n ELSE t.lastResendLineno,
          ok |-> TRUE]

Traffic == [wire |-> rdWire, lastWriteWasAResend |-> lastWriteWasAResend,
            lastResendLineno |-> lastResendLineno, ok |-> TRUE]

\* The loop of the SendType case that resends the backlog from..(to - 1);
\* the first good writes succeed, the following ones fail.
RECURSIVE resendBacklog(_, _, _, _)
resendBacklog(t, from, to, good) ==
    IF from >= to THEN t
    ELSE resendBacklog(send(t, from, hist[from], TRUE, good > 0),
                       from + 1, to, IF good > 0 THEN good - 1 ELSE 0)

\* The line number an OK request acknowledges.
okLineno(n) == IF n = 0 THEN lastOKLineno + 1 ELSE n

\* The calls a request of each kind comes from.
Sending == {c \in RDCalls : rdCallPc[c] = "send"}

Asking == {c \in RDCalls : rdCallPc[c] = "wait"}

Cancelling == {c \in RDCalls : rdCallPc[c] = "cancel"}

\* The next call to take a line number: calls are numbered in that order.
NextRDCall == {c \in RDCalls : rdCallPc[c] = "idle"
                 /\ \A d \in 1..(c - 1) : rdCallPc[d] # "idle"}

RDInit ==
    /\ oks = {}
    /\ waits = [n \in Linenos |-> 0]
    /\ hist = [n \in Linenos |-> NoText]
    /\ resends = {}
    /\ lastWriteWasAResend = FALSE
    /\ lastResendLineno = 0
    /\ lastOKLineno = 0
    /\ neverWaitForOK = FALSE
    /\ lineno = 0
    /\ conn = 0
    /\ linkUp = FALSE
    /\ runPc = "open"
    /\ rdReaderPc = "none"
    /\ rdCallPc = [c \in RDCalls |-> "idle"]
    /\ rdCallLineno = [c \in RDCalls |-> 0]
    /\ rdCallRes = [c \in RDCalls |-> "none"]
    /\ ackBuf = [c \in RDCalls |-> <<>>]
    /\ ackClosed = [c \in RDCalls |-> FALSE]
    /\ rdWire = <<>>

\* Run: the device is opened, M110 N0 and the framed M105 are written to
\* it, dl.conn and dl.lineno are set and the reader is started; Run then
\* waits in dl.closed.Wait().
RunOpen ==
    /\ runPc = "open"
    /\ conn < MaxRDConnects
    /\ conn' = conn + 1
    /\ rdWire' = <<[text |-> Bare("M110 N0"), resend |-> FALSE],
                    [text |-> Framed(1, "M105"), resend |-> FALSE]>>
    /\ lineno' = 0
    /\ linkUp' = TRUE
    /\ rdReaderPc' = "reading"
    /\ runPc' = "wait"
    /\ UNCHANGED <<oks, waits, hist, resends, lastWriteWasAResend,
                   lastResendLineno, lastOKLineno, neverWaitForOK, rdCallPc,
                   rdCallLineno, rdCallRes, ackBuf, ackClosed>>
    /\ UNCHANGED otherThanRD

\* readFromDevice: the link is lost (EOF or read error), from now on
\* writes to dl.conn fail; the deferred function will post a ResetType
\* request.
RDReadEOF ==
    /\ rdReaderPc = "reading"
    /\ linkUp' = FALSE
    /\ rdReaderPc' = "posting"
    /\ UNCHANGED <<oks, waits, hist, resends, lastWriteWasAResend,
                   lastResendLineno, lastOKLineno, neverWaitForOK, lineno,
                   conn, runPc, rdCallPc, rdCallLineno, rdCallRes,
                   ackBuf, ackClosed, rdWire>>
    /\ UNCHANGED otherThanRD

\* WriteAndWaitForOK -> addLinenoAndWrite -> takeLineno: an error without a
\* connection, else the next line number; the caller then posts SendType.
TakeLineno ==
    /\ \E c \in NextRDCall :
        IF conn = 0
        THEN /\ rdCallPc' = [rdCallPc EXCEPT ![c] = "returned"]
             /\ rdCallRes' = [rdCallRes EXCEPT ![c] = "ErrNoDownlinkConnection"]
             /\ UNCHANGED <<lineno, rdCallLineno>>
        ELSE /\ lineno' = lineno + 1
             /\ rdCallLineno' = [rdCallLineno EXCEPT ![c] = lineno + 1]
             /\ rdCallPc' = [rdCallPc EXCEPT ![c] = "send"]
             /\ UNCHANGED rdCallRes
    /\ UNCHANGED <<oks, waits, hist, resends, lastWriteWasAResend,
                   lastResendLineno, lastOKLineno, neverWaitForOK, conn,
                   linkUp, runPc, rdReaderPc, ackBuf, ackClosed, rdWire>>
    /\ UNCHANGED otherThanRD

\* handleTraffic, case OKType: the reader has scanned "ok" (n = 0) or
\* "ok <n>".
HandleOK ==
    /\ rdReaderPc = "reading"
    /\ \E n \in {0} \cup Linenos :
        LET k == okLineno(n)
        IN  /\ k \in Linenos
            /\ lastOKLineno' = k
            /\ oks' = oks \cup {k}
            /\ hist' = [hist EXCEPT ![k] = NoText]
            /\ IF waits[k] # 0
               THEN /\ ackBuf' = [ackBuf EXCEPT ![waits[k]] = Append(@, TRUE)]
                    /\ waits' = [waits EXCEPT ![k] = 0]
               ELSE UNCHANGED <<ackBuf, waits>>
    /\ UNCHANGED <<resends, lastWriteWasAResend, lastResendLineno,
                   neverWaitForOK, lineno, conn, linkUp, runPc, rdReaderPc,
                   rdCallPc, rdCallLineno, rdCallRes, ackClosed, rdWire>>
    /\ UNCHANGED otherThanRD

\* handleTraffic, case NeverWaitForOKType: the reader has scanned the
\* banner echo:Marlin 1.1.
HandleNeverWaitForOK ==
    /\ rdReaderPc = "reading"
    /\ ~neverWaitForOK
    /\ neverWaitForOK' = TRUE
    /\ UNCHANGED <<oks, waits, hist, resends, lastWriteWasAResend,
                   lastResendLineno, lastOKLineno, lineno, conn, linkUp,
                   runPc, rdReaderPc, rdCallPc, rdCallLineno, rdCallRes,
                   ackBuf, ackClosed, rdWire>>
    /\ UNCHANGED otherThanRD

\* Faulty variant: the WaitForOKType case without the never-ack mode.
waitForOKCase_NoMode(n) ==
    IF n \in oks THEN "true"
    ELSE IF waits[n] # 0 THEN "drop"
    ELSE "register"

\* What the WaitForOKType case does for line number n: "false" (never-ack
\* mode), "true" (already acknowledged), "drop" (double wait) or "register".
waitForOKCase(n) ==
    IF neverWaitForOK THEN "false"
    ELSE IF n \in oks THEN "true"
    ELSE IF waits[n] # 0 THEN "drop"
    ELSE "register"

\* handleTraffic, case WaitForOKType, posted by waitForOK.
HandleWaitForOK ==
    /\ \E c \in Asking :
        LET n == rdCallLineno[c]
            what == waitForOKCase(n)
        IN  /\ rdCallPc' = [rdCallPc EXCEPT ![c] = "waiting"]
            /\ ackBuf' = IF what \in {"true", "false"}
                         THEN [ackBuf EXCEPT ![c] = Append(@, what = "true")]
                         ELSE ackBuf
            /\ waits' = IF what = "register"
                        THEN [waits EXCEPT ![n] = c] ELSE waits
    /\ UNCHANGED <<oks, hist, resends, lastWriteWasAResend, lastResendLineno,
                   lastOKLineno, neverWaitForOK, lineno, conn, linkUp, runPc,
                   rdReaderPc, rdCallLineno, rdCallRes, ackClosed, rdWire>>
    /\ UNCHANGED otherThanRD

\* The outcome of a write to dl.conn: it succeeds while the link is up.
Writes == {linkUp}

\* The SendType case for line n with the given text: the backlog after the
\* last resend is written again, then the line; the first good writes
\* succeed.
SendType(n, text, good) ==
    LET from == lastResendLineno + 1
        replay == lastWriteWasAResend /\ lastResendLineno < n - 1
        t1 == IF replay THEN resendBacklog(Traffic, from, n, good)
              ELSE Traffic
        left == IF replay THEN good - (n - from) ELSE good
    IN  send(t1, n, text, FALSE, left > 0)

\* handleTraffic, case SendType, posted by addLinenoAndWrite.
HandleSend ==
    /\ \E c \in Sending :
        LET n == rdCallLineno[c]
        IN  \E good \in {IF linkUp THEN n + 1 ELSE 0} :
              LET t2 == SendType(n, Framed(n, c), good)
              IN  /\ rdWire' = t2.wire
                  /\ lastWriteWasAResend' = t2.lastWriteWasAResend
                  /\ lastResendLineno' = t2.lastResendLineno
                  /\ hist' = IF t2.ok THEN [hist EXCEPT ![n] = Framed(n, c)]
                             ELSE hist
                  /\ rdCallPc' = [rdCallPc EXCEPT ![c] = "wait"]
    /\ UNCHANGED <<oks, waits, resends, lastOKLineno, neverWaitForOK, lineno,
                   conn, linkUp, runPc, rdReaderPc, rdCallLineno, rdCallRes,
                   ackBuf, ackClosed>>
    /\ UNCHANGED otherThanRD

\* handleTraffic, case ResendType: the reader has scanned "Resend:<n>".
HandleResend ==
    /\ rdReaderPc = "reading"
    /\ Len(rdWire) < MaxWire
    /\ \E n \in Linenos : \E written \in Writes :
        LET t == IF hist[n] = NoText
                 THEN send(Traffic, n, Bare("M105"), FALSE, written)
                 ELSE send(Traffic, n, hist[n], TRUE, written)
        IN  /\ rdWire' = t.wire
            /\ lastWriteWasAResend' = t.lastWriteWasAResend
            /\ lastResendLineno' = t.lastResendLineno
    /\ UNCHANGED <<oks, waits, hist, resends, lastOKLineno, neverWaitForOK,
                   lineno, conn, linkUp, runPc, rdReaderPc, rdCallPc,
                   rdCallLineno, rdCallRes, ackBuf, ackClosed>>
    /\ UNCHANGED otherThanRD

\* handleTraffic, case ResetType, posted by the reader when it ends (Run
\* then leaves dl.closed.Wait()) or by a waitForOK whose context is done
\* (it then returns Canceled).
HandleReset ==
    /\ \/ /\ rdReaderPc = "posting"
          /\ rdReaderPc' = "none"
          /\ runPc' = "open"
          /\ UNCHANGED <<rdCallPc, rdCallRes>>
       \/ /\ \E c \in Cancelling :
                /\ rdCallPc' = [rdCallPc EXCEPT ![c] = "returned"]
                /\ rdCallRes' = [rdCallRes EXCEPT ![c] = "Canceled"]
          /\ UNCHANGED <<rdReaderPc, runPc>>
    /\ ackClosed' = [c \in RDCalls |->
                        ackClosed[c] \/ \E n \in Linenos : waits[n] = c]
    /\ oks' = {}
    /\ waits' = [n \in Linenos |-> 0]
    /\ hist' = [n \in Linenos |-> NoText]
    /\ resends' = {}
    /\ lastWriteWasAResend' = FALSE
    /\ lastResendLineno' = 0
    /\ lastOKLineno' = 0
    /\ UNCHANGED <<neverWaitForOK, lineno, conn, linkUp, rdCallLineno, ackBuf,
                   rdWire>>
    /\ UNCHANGED otherThanRD

\* What waitForOK returns for what its select took from ackCh.
waitForOKReturn(got) ==
    IF got = "closed" THEN "OKNotReceived" ELSE "nil"

\* waitForOK: the select takes a value, or the close, from ackCh.
WaitForOKReturn ==
    /\ \E c \in RDCalls :
        /\ rdCallPc[c] = "waiting"
        /\ Len(ackBuf[c]) > 0 \/ ackClosed[c]
        /\ rdCallPc' = [rdCallPc EXCEPT ![c] = "returned"]
        /\ IF Len(ackBuf[c]) > 0
           THEN /\ rdCallRes' = [rdCallRes EXCEPT ![c] = waitForOKReturn(
                        IF Head(ackBuf[c]) THEN "true" ELSE "false")]
                /\ ackBuf' = [ackBuf EXCEPT ![c] = Tail(@)]
           ELSE /\ rdCallRes' = [rdCallRes EXCEPT
                                   ![c] = waitForOKReturn("closed")]
                /\ UNCHANGED ackBuf
    /\ UNCHANGED <<oks, waits, hist, resends, lastWriteWasAResend,
                   lastResendLineno, lastOKLineno, neverWaitForOK, lineno,
                   conn, linkUp, runPc, rdReaderPc, rdCallLineno, ackClosed,
                   rdWire>>
    /\ UNCHANGED otherThanRD

\* waitForOK: the select takes ctx.Done(); the caller will post ResetType.
WaitForOKCancel ==
    /\ \E c \in RDCalls :
        /\ rdCallPc[c] = "waiting"
        /\ rdCallPc' = [rdCallPc EXCEPT ![c] = "cancel"]
    /\ UNCHANGED <<oks, waits, hist, resends, lastWriteWasAResend,
                   lastResendLineno, lastOKLineno, neverWaitForOK, lineno,
                   conn, linkUp, runPc, rdReaderPc, rdCallLineno, rdCallRes,
                   ackBuf, ackClosed, rdWire>>
    /\ UNCHANGED otherThanRD

RDNext ==
    \/ RunOpen
    \/ RDReadEOF
    \/ TakeLineno
    \/ HandleOK
    \/ HandleNeverWaitForOK
    \/ HandleWaitForOK
    \/ HandleSend
    \/ HandleResend
    \/ HandleReset
    \/ WaitForOKReturn
    \/ WaitForOKCancel

\* ------------------------------------------------------------------------
\* RealDownlink.handleTraffic alone (src/unnamed/part_014): the requests
\* arrive one after the other on an open connection, no caller waits.
\* ------------------------------------------------------------------------
TrafficLinenos == 1..MaxTrafficLineno

\* The state after Run has opened the device and written its two lines.
TrafficInit ==
    /\ oks = {}
    /\ waits = [n \in TrafficLinenos |-> 0]
    /\ hist = [n \in TrafficLinenos |-> NoText]
    /\ resends = {}
    /\ lastWriteWasAResend = FALSE
    /\ lastResendLineno = 0
    /\ lastOKLineno = 0
    /\ neverWaitForOK = FALSE
    /\ lineno = 0
    /\ conn = 1
    /\ linkUp = TRUE
    /\ runPc = "wait"
    /\ rdReaderPc = "reading"
    /\ rdCallPc = [c \in RDCalls |-> "idle"]
    /\ rdCallLineno = [c \in RDCalls |-> 0]
    /\ rdCallRes = [c \in RDCalls |-> "none"]
    /\ ackBuf = [c \in RDCalls |-> <<>>]
    /\ ackClosed = [c \in RDCalls |-> FALSE]
    /\ rdWire = <<[text |-> Bare("M110 N0"), resend |-> FALSE],
                   [text |-> Framed(1, "M105"), resend |-> FALSE]>>

\* takeLineno and the SendType case for the next line; its command is
\* named by its line number.
TrafficSend ==
    /\ lineno < MaxTrafficLineno
    /\ LET n == lineno + 1
           t == SendType(n, Framed(n, n), n + 1)
       IN  /\ lineno' = n
           /\ rdWire' = t.wire
           /\ lastWriteWasAResend' = t.lastWriteWasAResend
           /\ lastResendLineno' = t.lastResendLineno
           /\ hist' = IF t.ok THEN [hist EXCEPT ![n] = Framed(n, n)] ELSE hist
    /\ UNCHANGED <<oks, waits, resends, lastOKLineno, neverWaitForOK, conn,
                   linkUp, runPc, rdReaderPc, rdCallPc, rdCallLineno,
                   rdCallRes, ackBuf, ackClosed>>
    /\ UNCHANGED otherThanRD

\* The OKType case: "ok" (n = 0) or "ok <n>"; nobody waits.
TrafficOK ==
    /\ \E n \in {0} \cup TrafficLinenos :
          LET k == okLineno(n)
          IN  /\ k \in TrafficLinenos
              /\ lastOKLineno' = k
              /\ oks' = oks \cup {k}
              /\ hist' = [hist EXCEPT ![k] = NoText]
    /\ UNCHANGED <<waits, resends, lastWriteWasAResend, lastResendLineno,
                   neverWaitForOK, lineno, conn, linkUp, runPc, rdReaderPc,
                   rdCallPc, rdCallLineno, rdCallRes, ackBuf, ackClosed,
                   rdWire>>
    /\ UNCHANGED otherThanRD

\* The ResendType case: "Resend:<n>".
TrafficResend ==
    /\ Len(rdWire) < MaxWire
    /\ \E n \in TrafficLinenos :
          LET t == IF hist[n] = NoText
                   THEN send(Traffic, n, Bare("M105"), FALSE, TRUE)
                   ELSE send(Traffic, n, hist[n], TRUE, TRUE)
          IN  /\ rdWire' = t.wire
              /\ lastWriteWasAResend' = t.lastWriteWasAResend
              /\ lastResendLineno' = t.lastResendLineno
    /\ UNCHANGED <<oks, waits, hist, resends, lastOKLineno, neverWaitForOK,
                   lineno, conn, linkUp, runPc, rdReaderPc, rdCallPc,
                   rdCallLineno, rdCallRes, ackBuf, ackClosed>>
    /\ UNCHANGED otherThanRD

TrafficNext ==
    \/ TrafficSend
    \/ TrafficOK
    \/ TrafficResend

\* ------------------------------------------------------------------------
\* Executor.ExecuteGcode (src/executor.go)
\* ------------------------------------------------------------------------
\* A Cmd of the loaded program: Text names the instruction, s is the
\* parameter S of M7820 (0 for the others).
Cmd(t, s) == [text |-> t, s |-> s]

Cmds == {Cmd("G1", 0)} \cup {Cmd("M7820", s) : s \in 0..MaxFrame}

Programs == UNION {[1..n -> Cmds] : n \in 0..MaxCmds}

\* Cmd.IsHost: Type == "M" && Idx == 7820.
IsHost_Never(c) == FALSE

IsHost(c) == c.text = "M7820"

RECURSIVE MaxS(_)
MaxS(q) ==
    IF q = <<>> THEN 0
    ELSE LET r == MaxS(Tail(q)) IN
         IF IsHost(Head(q)) /\ Head(q).s > r THEN Head(q).s ELSE r

\* loadGcode: numFrames is the largest frame index of the program.
numFrames == MaxS(cmds)

\* Progress values are kept in hundredths: 0.01 is 1, 0.05 is 5, 33.3 is
\* 3330.  float64(int(float64(i*1000)/float64(len(cmds)))) / 10, with 0.05
\* in place of 0; i counts from 0.
progress(k) ==
    LET p == ((k * 1000) \div Len(cmds)) * 10 IN IF p = 0 THEN 5 ELSE p

\* One call of exe.down.WriteAndWaitForOK as the Executor sees it.
Sub(t, k, c) == [text |-> t, idx |-> k, ctx |-> c]

AbortCmds == <<"M107", "G1 Z170 F200", "M84">>

\* What WriteAndWaitForOK can return to the loop.
WriteResults ==
    {"nil", "ErrConnectionReset", "failed"}
       \cup (IF exeCtxDone THEN {"context canceled"} ELSE {})

\* A return statement of ExecuteGcode with the named result err = e: the
\* deferred function, once registered, reports progress 0 and starts the
\* abort commands when e is an error.
Returns(e) ==
    /\ exeRes' = e
    /\ IF armed /\ e # "nil"
          THEN /\ exePc' = "abort"
               /\ progressLog' = Append(progressLog, 0)
          ELSE /\ exePc' = "done"
               /\ UNCHANGED progressLog

ExeInit ==
    /\ cmds = <<>>
    /\ exePc = "idle"
    /\ exeI = 0
    /\ exeCtxDone = FALSE
    /\ armed = FALSE
    /\ lastProgress = 0
    /\ progressLog = <<>>
    /\ frameLog = <<>>
    /\ submitted = <<>>
    /\ exeAcked = {}
    /\ homePc = "idle"
    /\ retries = 0
    /\ exeRes = "none"

\* The context handed to ExecuteGcode is cancelled.  After the return
\* statement the job context is not read any more.
ExeCancel ==
    /\ exePc \in {"load", "homed", "loop", "submit", "writing"}
    /\ ~exeCtxDone
    /\ exeCtxDone' = TRUE
    /\ UNCHANGED <<cmds, exePc, exeI, armed, lastProgress, progressLog,
                   frameLog, submitted, exeAcked, homePc, retries, exeRes>>
    /\ UNCHANGED otherThanExe

\* Lines 70-91: the call, with the program that gcodePath holds, the
\* connectivity check, progress 0.01 and the start of the homing goroutine.
ExeConnected ==
    /\ exePc = "idle"
    /\ \E c \in BOOLEAN :
          IF c THEN /\ cmds' \in Programs
                    /\ progressLog' = Append(progressLog, 1)
                    /\ homePc' = "writing"
                    /\ exePc' = "load"
                    /\ UNCHANGED exeRes
               ELSE /\ exeRes' = "printer not connected"
                    /\ exePc' = "done"
                    /\ UNCHANGED <<cmds, progressLog, homePc>>
    /\ UNCHANGED <<exeI, exeCtxDone, armed, lastProgress, frameLog,
                   submitted, exeAcked, retries>>
    /\ UNCHANGED otherThanExe

\* Lines 86-91: the homing goroutine; an error is only logged.
ExeHome ==
    /\ homePc = "writing"
    /\ homePc' = "done"
    /\ submitted' = Append(submitted, Sub("G28 Z0", 0, "job"))
    /\ UNCHANGED <<cmds, exePc, exeI, exeCtxDone, armed, lastProgress,
                   progressLog, frameLog, exeAcked, retries, exeRes>>
    /\ UNCHANGED otherThanExe

\* Lines 93-102: loadGcode, progress 0.02, frame 0 and the first look at
\* the context.
ExeLoadGcode ==
    /\ exePc = "load"
    /\ \E loaded \in BOOLEAN :
          IF ~loaded
             THEN /\ Returns("could not load gcode")
                  /\ UNCHANGED frameLog
             ELSE /\ frameLog' = Append(frameLog, [idx |-> 0, frame |-> 0,
                                                   of |-> numFrames])
                  /\ IF exeCtxDone
                        THEN /\ exeRes' = "context canceled"
                             /\ exePc' = "done"
                        ELSE /\ exePc' = "homed"
                             /\ UNCHANGED exeRes
                  /\ progressLog' = Append(progressLog, 2)
    /\ UNCHANGED <<cmds, exeI, exeCtxDone, armed, lastProgress, submitted,
                   exeAcked, homePc, retries>>
    /\ UNCHANGED otherThanExe

\* Lines 105-127: wg.Wait, WaitForConnection and the registration of the
\* deferred abort function.
ExeWaitHomed ==
    /\ exePc = "homed"
    /\ homePc = "done"
    /\ \E up \in BOOLEAN :
          IF up THEN /\ armed' = TRUE
                     /\ exePc' = "loop"
                     /\ UNCHANGED <<exeRes, progressLog>>
                ELSE /\ Returns("ErrNoDownlinkConnection")
                     /\ UNCHANGED armed
    /\ UNCHANGED <<cmds, exeI, exeCtxDone, lastProgress, frameLog,
                   submitted, exeAcked, homePc, retries>>
    /\ UNCHANGED otherThanExe

\* Line 133 and line 187: the loop is over.
ExeLoopEnd ==
    /\ exePc = "loop"
    /\ exeI >= Len(cmds)
    /\ Returns("nil")
    /\ UNCHANGED <<cmds, exeI, exeCtxDone, armed, lastProgress, frameLog,
                   submitted, exeAcked, homePc, retries>>
    /\ UNCHANGED otherThanExe

\* Lines 134-168: one pass of the loop up to the write: the look at the
\* context, the progress notification and a host command.
ExeLoopTop ==
    /\ exePc = "loop"
    /\ exeI < Len(cmds)
    /\ IF exeCtxDone
          THEN /\ Returns("context canceled")
               /\ UNCHANGED <<exeI, lastProgress, frameLog>>
          ELSE LET p == progress(exeI)
                   c == cmds[exeI + 1]
                   log == IF p > lastProgress THEN Append(progressLog, p)
                                              ELSE progressLog
               IN  /\ lastProgress' = IF p > lastProgress THEN p
                                                          ELSE lastProgress
                   /\ IF ~IsHost(c)
                         THEN /\ exePc' = "submit"
                              /\ progressLog' = log
                              /\ UNCHANGED <<exeI, frameLog, exeRes>>
                         ELSE \E ran \in BOOLEAN :
                                IF ran
                                   THEN /\ frameLog' = Append(frameLog,
                                              [idx |-> exeI + 1,
                                               frame |-> c.s,
                                               of |-> numFrames])
                                        /\ exeI' = exeI + 1
                                        /\ exePc' = "loop"
                                        /\ progressLog' = log
                                        /\ UNCHANGED exeRes
                                   ELSE /\ exeRes' = "failed to execute command"
                                        /\ exePc' = "abort"
                                        /\ progressLog' = Append(log, 0)
                                        /\ UNCHANGED <<exeI, frameLog>>
    /\ UNCHANGED <<cmds, exeCtxDone, armed, submitted, exeAcked, homePc,
                   retries>>
    /\ UNCHANGED otherThanExe

\* Faulty variant: the retry goes on with the following instruction.
Retried_Next == IF exeI + 1 < Len(cmds) THEN exeI + 1 ELSE exeI

\* Lines 169-185: the inner loop does not touch i, a retry writes cmds[i]
\* again.
Retried == exeI

\* Line 170: the instruction is handed to WriteAndWaitForOK.
ExeSubmit ==
    /\ exePc = "submit"
    /\ submitted' = Append(submitted, Sub(cmds[exeI + 1].text, exeI + 1, "job"))
    /\ exePc' = "writing"
    /\ UNCHANGED <<cmds, exeI, exeCtxDone, armed, lastProgress, progressLog,
                   frameLog, exeAcked, homePc, retries, exeRes>>
    /\ UNCHANGED otherThanExe

\* Lines 170-185: WriteAndWaitForOK returns.
ExeWriteReturns ==
    /\ exePc = "writing"
    /\ \E r \in WriteResults :
          CASE r = "nil" ->
                  /\ exeAcked' = exeAcked \cup {exeI + 1}
                  /\ exeI' = exeI + 1
                  /\ exePc' = "loop"
                  /\ UNCHANGED <<exeRes, progressLog, retries>>
            [] r = "ErrConnectionReset" ->
                  /\ Returns("ErrConnectionReset")
                  /\ UNCHANGED <<exeI, exeAcked, retries>>
            [] OTHER ->
                  IF exeCtxDone
                     THEN /\ Returns("context canceled")
                          /\ UNCHANGED <<exeI, exeAcked, retries>>
                     ELSE \E up \in BOOLEAN :
                            IF up
                               THEN /\ retries < MaxRetries
                                    /\ retries' = retries + 1
                                    /\ exePc' = "submit"
                                    /\ exeI' = Retried
                                    /\ UNCHANGED <<exeAcked, exeRes,
                                                   progressLog>>
                               ELSE /\ Returns("ErrNoDownlinkConnection")
                                    /\ UNCHANGED <<exeI, exeAcked, retries>>
    /\ UNCHANGED <<cmds, exeCtxDone, armed, lastProgress, frameLog,
                   submitted, homePc>>
    /\ UNCHANGED otherThanExe

\* The abort commands the deferred function has submitted so far.
AbortsSubmitted ==
    SelectSeq(submitted, LAMBDA x : x.ctx # "job")

\* Lines 120-126: the deferred function submits the next abort command
\* under the context it derived from context.Background(); the result is
\* only logged.
ExeAbort ==
    /\ exePc = "abort"
    /\ LET k == Len(AbortsSubmitted) + 1 IN
          /\ submitted' = Append(submitted, Sub(AbortCmds[k], 0, "background"))
          /\ exePc' = IF k = Len(AbortCmds) THEN "done" ELSE "abort"
    /\ UNCHANGED <<cmds, exeI, exeCtxDone, armed, lastProgress, progressLog,
                   frameLog, exeAcked, homePc, retries, exeRes>>
    /\ UNCHANGED otherThanExe

ExeNext ==
    \/ ExeCancel
    \/ ExeConnected
    \/ ExeHome
    \/ ExeLoadGcode
    \/ ExeWaitHomed
    \/ ExeLoopEnd
    \/ ExeLoopTop
    \/ ExeSubmit
    \/ ExeWriteReturns
    \/ ExeAbort

\* ------------------------------------------------------------------------
\* gcode.AddLineAndHash (src/gcode/gcode.go).  A string is the sequence of
\* its bytes.
\* ------------------------------------------------------------------------
\* "G28 Z0 F150", the command of TestAddLineAndHash.
GcExample == <<71, 50, 56, 32, 90, 48, 32, 70, 49, 53, 48>>

\* The bytes the other commands are made of: G, 1, space, M and ~.
GcAlphabet == {71, 49, 32, 77, 126}

GcTexts ==
    {GcExample} \cup UNION {[1..n -> GcAlphabet] : n \in 0..MaxGcLen}

\* fmt's %d of a number that is not negative.
RECURSIVE Decimal(_)
Decimal(n) ==
    IF n < 10 THEN <<48 + n>> ELSE Decimal(n \div 10) \o <<48 + (n % 10)>>

\* a ^ b on bytes.
RECURSIVE Xor(_, _)
Xor(a, b) ==
    IF a = 0 /\ b = 0 THEN 0
    ELSE ((a + b) % 2) + 2 * Xor(a \div 2, b \div 2)

\* Faulty variant: the checksum adds the bytes.
RECURSIVE Checksum_Adds(_, _)
Checksum_Adds(str, sum) ==
    IF str = <<>> THEN sum
    ELSE Checksum_Adds(Tail(str), (sum + Head(str)) % 256)

\* The loop of AddLineAndHash: sum ^= str[i] for every byte of str.
RECURSIVE Checksum(_, _)
Checksum(str, sum) ==
    IF str = <<>> THEN sum ELSE Checksum(Tail(str), Xor(sum, Head(str)))

\* str := Sprintf("N%d %s", lineno, gcode); Sprintf("%s*%d", str, sum).
AddLineAndHash(n, gcode) ==
    LET str == <<78>> \o Decimal(n) \o <<32>> \o gcode
    IN  str \o <<42>> \o Decimal(Checksum(str, 0))

GcInit ==
    /\ gcLineno = 0
    /\ gcText = <<>>
    /\ gcOut = <<>>

\* The arguments of one call of AddLineAndHash.
GcInputs ==
    /\ gcLineno \in 0..MaxGcLineno
    /\ gcText \in GcTexts
    /\ gcOut = <<>>

\* The call.
GcAddLineAndHash ==
    /\ gcOut = <<>>
    /\ gcOut' = AddLineAndHash(gcLineno, gcText)
    /\ UNCHANGED <<gcLineno, gcText>>
    /\ UNCHANGED otherThanGc

GcNext == GcAddLineAndHash

\* ------------------------------------------------------------------------
\* Shell.Run and Shell.processGcodeUpdates (src/shell.go): the entries of
\* the ts.gcode documents.  An entry is its ts; what its verb is shows in
\* whether the switch goes on to the next entry or returns.
\* ------------------------------------------------------------------------
TSDocs == UNION {[1..n -> 1..MaxTS] : n \in 0..MaxDocLen}

\* Faulty variant: an entry whose ts equals lastTS is taken again.
RECURSIVE Collect_Again(_, _, _)
Collect_Again(doc, i, t) ==
    IF i > Len(doc) THEN [cmds |-> <<>>, lastTS |-> t]
    ELSE IF doc[i] < t THEN Collect_Again(doc, i + 1, t)
    ELSE LET r == Collect_Again(doc, i + 1, doc[i])
         IN  [cmds |-> <<i>> \o r.cmds, lastTS |-> r.lastTS]

\* The first loop of processGcodeUpdates from entry i on, lastTS being t:
\* the positions appended to cmds and the final lastTS.
RECURSIVE Collect(_, _, _)
Collect(doc, i, t) ==
    IF i > Len(doc) THEN [cmds |-> <<>>, lastTS |-> t]
    ELSE IF doc[i] <= t THEN Collect(doc, i + 1, t)
    ELSE LET r == Collect(doc, i + 1, doc[i])
         IN  [cmds |-> <<i>> \o r.cmds, lastTS |-> r.lastTS]

\* The second loop: the verbs of cmds (q) are dispatched in order; verb
\* number stop ends the call with return lastTS (a fetch-and-print that is
\* rejected, a realsense-train-pack, reboot, snapshot or g-code line that
\* fails); stop = 0 when every verb goes on to the next one.
Dispatched(q, stop) ==
    IF stop = 0 THEN q ELSE SubSeq(q, 1, stop)

TSInit ==
    /\ lastTS = 0
    /\ tsDoc = <<>>
    /\ tsArg = 0
    /\ tsBatch = <<>>
    /\ tsLog = <<>>

\* One pass of the loop of Shell.Run: a document is received and
\* processGcodeUpdates handles it; a document that does not parse leaves
\* lastTS as it is.
ProcessGcodeUpdates ==
    /\ \E doc \in TSDocs : \E parses \in BOOLEAN :
          LET c == Collect(doc, 1, lastTS) IN
          \E stop \in 0..Len(c.cmds) :
             /\ tsArg' = lastTS
             /\ IF parses
                   THEN /\ tsDoc' = doc
                        /\ tsBatch' = Dispatched(c.cmds, stop)
                        /\ lastTS' = c.lastTS
                   ELSE /\ tsDoc' = <<>>
                        /\ tsBatch' = <<>>
                        /\ lastTS' = lastTS
             /\ tsLog' = tsLog \o [j \in DOMAIN tsBatch' |-> doc[tsBatch'[j]]]
    /\ UNCHANGED otherThanTS

TSNext == ProcessGcodeUpdates

\* ------------------------------------------------------------------------
\* UR3Downlink (src/ur3.go, the later of the two versions in the file)
\* ------------------------------------------------------------------------
URCalls == 1..MaxURCalls

URMsg(t, c, e) == [type |-> t, call |-> c, err |-> e]

URMsgs ==
    {URMsg("Connected", 0, FALSE), URMsg("Disconnected", 0, FALSE),
     URMsg("IsConnected", 0, FALSE)}
    \cup {URMsg("WriteAndWaitForOK", c, FALSE) : c \in URCalls}
    \cup {URMsg("Written", c, e) : c \in URCalls, e \in BOOLEAN}

\* What one pass of a handler does: the next state ("" = keep looping), the
\* fields pendingOKAck and pendingWrites, one channel operation op on the
\* reply channel of call `to`, the call whose write goroutine is started,
\* and the reply given to a Connected() probe.
URStay ==
    [next |-> "", ack |-> urAck, queue |-> urQueue, op |-> "none", to |-> 0,
     val |-> FALSE, start |-> 0, probe |-> "none"]

URFatalf == [URStay EXCEPT !.next = "Terminated"]

URSend(c, v) == [URStay EXCEPT !.op = "send", !.to = c, !.val = v]

\* wr of handleNormal: remember the reply channel and start the write.
UR3wr(c, q) ==
    [URStay EXCEPT !.next = "WaitingForOK", !.ack = c, !.queue = q,
                   !.start = c]

UR3handleConnecting(m) ==
    CASE m.type = "Connected" -> [URStay EXCEPT !.next = "Connected"]
      [] m.type = "IsConnected" -> [URStay EXCEPT !.probe = "false"]
      [] m.type = "WriteAndWaitForOK" -> URSend(m.call, FALSE)
      [] OTHER -> URFatalf

UR3handleNormal(m) ==
    CASE m.type = "Connected" -> URFatalf
      [] m.type = "IsConnected" -> [URStay EXCEPT !.probe = "true"]
      [] m.type = "Disconnected" -> [URStay EXCEPT !.next = "Disconnected"]
      [] m.type = "WriteAndWaitForOK" -> UR3wr(m.call, urQueue)
      [] OTHER -> URFatalf

UR3handleWaitingForOK(m) ==
    CASE m.type = "Connected" -> URFatalf
      [] m.type = "IsConnected" -> [URStay EXCEPT !.probe = "true"]
      [] m.type = "Disconnected" ->
            [URStay EXCEPT !.next = "WaitingForWritten", !.op = "close",
                           !.to = urAck, !.ack = 0]
      [] m.type = "WriteAndWaitForOK" ->
            [URStay EXCEPT !.queue = Append(urQueue, m.call)]
      [] m.type = "Written" ->
            [URSend(urAck, TRUE) EXCEPT !.next = "Normal", !.ack = 0]
      [] OTHER -> URFatalf

UR3handleWaitingForWritten(m) ==
    CASE m.type = "IsConnected" -> [URStay EXCEPT !.probe = "false"]
      [] m.type = "WriteAndWaitForOK" -> URSend(m.call, FALSE)
      [] m.type = "Written" -> [URStay EXCEPT !.next = "Disconnected"]
      [] OTHER -> URFatalf

\* The sender of m is parked on the unbuffered reqCh.
UROffered(m) ==
    CASE m.type = "Connected" -> urConnectPc = "posting"
      [] m.type = "Disconnected" -> urReaderPc = "posting"
      [] m.type = "Written" ->
            /\ urWriterPc[m.call] = "posting"
            /\ m.err = (urWriteRes[m.call] = "error")
      [] m.type = "WriteAndWaitForOK" ->
            /\ urCallPc[m.call] = "idle"
            /\ \A d \in URCalls : d < m.call => urCallPc[d] # "idle"
      [] OTHER -> m.type = "IsConnected"

\* The actor's fields and the channels after a handler pass with outcome o.
\* A send on a closed or full channel and a close of a nil or closed channel
\* stop the actor.
URApply(o) ==
    LET bad == \/ o.op # "none" /\ o.to = 0
               \/ o.op # "none" /\ o.to # 0 /\ urChClosed[o.to]
               \/ o.op = "send" /\ o.to # 0 /\ urChBuf[o.to] # <<>>
    IN  /\ urFault' = (urFault \/ bad)
        /\ urSt' = IF bad THEN "Terminated"
                   ELSE IF o.next = "" THEN urSt ELSE o.next
        /\ urAck' = o.ack
        /\ urQueue' = o.queue
        /\ urProbe' = IF o.probe = "none" THEN urProbe ELSE o.probe
        /\ urChBuf' = IF o.op = "send" /\ ~bad
                      THEN [urChBuf EXCEPT ![o.to] = <<o.val>>]
                      ELSE urChBuf
        /\ urChClosed' = IF o.op = "close" /\ ~bad
                         THEN [urChClosed EXCEPT ![o.to] = TRUE]
                         ELSE urChClosed

\* The actor takes message m off reqCh and its handler answers with o.
URReceives(m, o) ==
    /\ UROffered(m)
    /\ URApply(o)
    /\ urConnectPc' = IF m.type = "Connected" THEN "idle" ELSE urConnectPc
    /\ urReaderPc' = IF m.type = "Disconnected" THEN "none" ELSE urReaderPc
    /\ urWriterPc' =
          [d \in URCalls |->
             IF d = o.start THEN "writing"
             ELSE IF m.type = "Written" /\ d = m.call THEN "done"
             ELSE urWriterPc[d]]
    /\ urCallPc' = IF m.type = "WriteAndWaitForOK"
                   THEN [urCallPc EXCEPT ![m.call] = "waiting"]
                   ELSE urCallPc
    /\ UNCHANGED <<urConnOpen, urEpoch, urWriteRes, urCallRes>>
    /\ UNCHANGED otherThanUR

URInit ==
    /\ urSt = "Disconnected"
    /\ urAck = 0
    /\ urQueue = <<>>
    /\ urProbe = "none"
    /\ urConnOpen = FALSE
    /\ urEpoch = 0
    /\ urConnectPc = "idle"
    /\ urReaderPc = "none"
    /\ urWriterPc = [c \in URCalls |-> "none"]
    /\ urWriteRes = [c \in URCalls |-> "none"]
    /\ urCallPc = [c \in URCalls |-> "idle"]
    /\ urCallRes = [c \in URCalls |-> "none"]
    /\ urChBuf = [c \in URCalls |-> <<>>]
    /\ urChClosed = [c \in URCalls |-> FALSE]
    /\ urFault = FALSE

\* handleDisconnected: start connect, which first drops the old connections.
URHandleDisconnected ==
    /\ urSt = "Disconnected"
    /\ urSt' = "Connecting"
    /\ urConnectPc' = "dialing"
    /\ urConnOpen' = FALSE
    /\ UNCHANGED <<urAck, urQueue, urProbe, urEpoch, urReaderPc, urWriterPc,
                   urWriteRes, urCallPc, urCallRes, urChBuf, urChClosed,
                   urFault>>
    /\ UNCHANGED otherThanUR

\* connect: both dials succeed at last; MsgConnected is posted.
URConnect ==
    /\ urConnectPc = "dialing"
    /\ urEpoch < MaxURConnects
    /\ urConnectPc' = "posting"
    /\ urConnOpen' = TRUE
    /\ urEpoch' = urEpoch + 1
    /\ UNCHANGED <<urSt, urAck, urQueue, urProbe, urReaderPc, urWriterPc,
                   urWriteRes, urCallPc, urCallRes, urChBuf, urChClosed,
                   urFault>>
    /\ UNCHANGED otherThanUR

URHandleConnecting ==
    /\ urSt = "Connecting"
    /\ \E m \in URMsgs : URReceives(m, UR3handleConnecting(m))

\* handleConnected: start readFromDevice.
URHandleConnected ==
    /\ urSt = "Connected"
    /\ urSt' = "Normal"
    /\ urReaderPc' = "reading"
    /\ UNCHANGED <<urAck, urQueue, urProbe, urConnOpen, urEpoch, urConnectPc,
                   urWriterPc, urWriteRes, urCallPc, urCallRes, urChBuf,
                   urChClosed, urFault>>
    /\ UNCHANGED otherThanUR

\* handleNormal: a pending write is taken before any message is read.
URHandleNormal ==
    /\ urSt = "Normal"
    /\ IF urQueue # <<>>
       THEN /\ URApply(UR3wr(Head(urQueue), Tail(urQueue)))
            /\ urWriterPc' = [urWriterPc EXCEPT ![Head(urQueue)] = "writing"]
            /\ UNCHANGED <<urConnOpen, urEpoch, urConnectPc, urReaderPc,
                           urWriteRes, urCallPc, urCallRes>>
            /\ UNCHANGED otherThanUR
       ELSE \E m \in URMsgs : URReceives(m, UR3handleNormal(m))

URHandleWaitingForOK ==
    /\ urSt = "WaitingForOK"
    /\ \E m \in URMsgs : URReceives(m, UR3handleWaitingForOK(m))

URHandleWaitingForWritten ==
    /\ urSt = "WaitingForWritten"
    /\ \E m \in URMsgs : URReceives(m, UR3handleWaitingForWritten(m))

\* write: dl.conn.Write returns; on an open connection it may fail as well.
URWrite ==
    \E c \in URCalls : \E e \in BOOLEAN :
        /\ urWriterPc[c] = "writing"
        /\ ~urConnOpen => e
        /\ urWriterPc' = [urWriterPc EXCEPT ![c] = "posting"]
        /\ urWriteRes' = [urWriteRes EXCEPT ![c] = IF e THEN "error" ELSE "ok"]
        /\ UNCHANGED <<urSt, urAck, urQueue, urProbe, urConnOpen, urEpoch,
                       urConnectPc, urReaderPc, urCallPc, urCallRes, urChBuf,
                       urChClosed, urFault>>
        /\ UNCHANGED otherThanUR

\* readFromDevice: a read fails; the connection is closed and
\* MsgDisconnected is posted.
URReadError ==
    /\ urReaderPc = "reading"
    /\ urReaderPc' = "posting"
    /\ urConnOpen' = FALSE
    /\ UNCHANGED <<urSt, urAck, urQueue, urProbe, urEpoch, urConnectPc,
                   urWriterPc, urWriteRes, urCallPc, urCallRes, urChBuf,
                   urChClosed, urFault>>
    /\ UNCHANGED otherThanUR

\* WriteAndWaitForOK: the select receives from respCh, whatever the value.
URCallReturn ==
    \E c \in URCalls :
        /\ urCallPc[c] = "waiting"
        /\ urChBuf[c] # <<>> \/ urChClosed[c]
        /\ urCallPc' = [urCallPc EXCEPT ![c] = "returned"]
        /\ urCallRes' = [urCallRes EXCEPT
                           ![c] = IF urChBuf[c] # <<>> THEN "nil"
                                  ELSE "OK not received"]
        /\ urChBuf' = [urChBuf EXCEPT ![c] = <<>>]
        /\ UNCHANGED <<urSt, urAck, urQueue, urProbe, urConnOpen, urEpoch,
                       urConnectPc, urReaderPc, urWriterPc, urWriteRes,
                       urChClosed, urFault>>
        /\ UNCHANGED otherThanUR

\* WriteAndWaitForOK: the select takes ctx.Done().
URCallCancel ==
    \E c \in URCalls :
        /\ urCallPc[c] = "waiting"
        /\ urCallPc' = [urCallPc EXCEPT ![c] = "returned"]
        /\ urCallRes' = [urCallRes EXCEPT ![c] = "Canceled"]
        /\ UNCHANGED <<urSt, urAck, urQueue, urProbe, urConnOpen, urEpoch,
                       urConnectPc, urReaderPc, urWriterPc, urWriteRes,
                       urChBuf, urChClosed, urFault>>
        /\ UNCHANGED otherThanUR

URNext ==
    \/ URHandleDisconnected
    \/ URConnect
    \/ URHandleConnecting
    \/ URHandleConnected
    \/ URHandleNormal
    \/ URHandleWaitingForOK
    \/ URHandleWaitingForWritten
    \/ URWrite
    \/ URReadError
    \/ URCallReturn
    \/ URCallCancel

\* ------------------------------------------------------------------------
\* CombinedSnapshotter.TakeSnapshot (src/snapshot.go)
\* ------------------------------------------------------------------------
SnapNames == 1..MaxSnaps

Writing == {s \in SnapNames : csSnapPc[s] = "writing"}

CSInit ==
    /\ csPc = "idle"
    /\ csNumFrames = 0
    /\ csSnaps = {}
    /\ csSnapPc = [s \in SnapNames |-> "none"]
    /\ csSnapErr = [s \in SnapNames |-> FALSE]
    /\ csRaced = {}
    /\ csErrs = {}
    /\ csRes = "none"

\* TakeSnapshot is called: an error for numFrames # 1, else one goroutine
\* per entry of cs.Snaps is started and the caller goes to wg.Wait().
CSTakeSnapshot ==
    /\ csPc = "idle"
    /\ \E nf \in 0..MaxNumFrames : \E snaps \in SUBSET SnapNames :
          /\ csNumFrames' = nf
          /\ csSnaps' = snaps
          /\ IF nf # 1
             THEN /\ csPc' = "returned"
                  /\ csRes' = "error"
                  /\ UNCHANGED csSnapPc
             ELSE /\ csPc' = "waiting"
                  /\ csSnapPc' = [s \in SnapNames |->
                                    IF s \in snaps THEN "running" ELSE "none"]
                  /\ UNCHANGED csRes
    /\ UNCHANGED <<csSnapErr, csRaced, csErrs>>
    /\ UNCHANGED otherThanCS

\* snap.TakeSnapshot returns in the goroutine of s, with or without error;
\* without one the goroutine ends (wg.Done).
CSSnapReturns ==
    /\ \E s \in SnapNames : \E e \in BOOLEAN :
          /\ csSnapPc[s] = "running"
          /\ csSnapErr' = [csSnapErr EXCEPT ![s] = e]
          /\ csSnapPc' = [csSnapPc EXCEPT ![s] = IF e THEN "failed" ELSE "done"]
    /\ UNCHANGED <<csPc, csNumFrames, csSnaps, csRaced, csErrs, csRes>>
    /\ UNCHANGED otherThanCS

\* errs[name] = err begins: the map is not locked, the write may overlap
\* the write of another goroutine.
CSBeginWrite ==
    /\ \E s \in SnapNames :
          /\ csSnapPc[s] = "failed"
          /\ csSnapPc' = [csSnapPc EXCEPT ![s] = "writing"]
          /\ csRaced' = IF Writing # {} THEN csRaced \cup Writing \cup {s}
                        ELSE csRaced
    /\ UNCHANGED <<csPc, csNumFrames, csSnaps, csSnapErr, csErrs, csRes>>
    /\ UNCHANGED otherThanCS

\* errs[name] = err ends and the goroutine ends.  A write that overlapped
\* another one is a data race on the map: the entry is stored, or it is
\* lost, or the runtime stops the process (concurrent map writes).
CSEndWrite ==
    /\ csPc = "waiting"
    /\ \E s \in SnapNames :
          \E outcome \in IF s \in csRaced THEN {"stored", "lost", "crash"}
                         ELSE {"stored"} :
             /\ csSnapPc[s] = "writing"
             /\ csSnapPc' = [csSnapPc EXCEPT ![s] = "done"]
             /\ csErrs' = IF outcome = "stored" THEN csErrs \cup {s} ELSE csErrs
             /\ csPc' = IF outcome = "crash" THEN "crashed" ELSE csPc
    /\ UNCHANGED <<csNumFrames, csSnaps, csSnapErr, csRaced, csRes>>
    /\ UNCHANGED otherThanCS

\* wg.Wait() returns; the first entry of errs, if any, is the error.
CSReturn ==
    /\ csPc = "waiting"
    /\ \A s \in csSnaps : csSnapPc[s] = "done"
    /\ csPc' = "returned"
    /\ csRes' = IF csErrs # {} THEN "error" ELSE "nil"
    /\ UNCHANGED <<csNumFrames, csSnaps, csSnapPc, csSnapErr, csRaced, csErrs>>
    /\ UNCHANGED otherThanCS

CSNext ==
    \/ CSTakeSnapshot
    \/ CSSnapReturns
    \/ CSBeginWrite
    \/ CSEndWrite
    \/ CSReturn

\* ------------------------------------------------------------------------
\* Uplink.Notify and Uplink.runNotify (src/uplink.go)
\* ------------------------------------------------------------------------
Notes == 1..MaxNotes

\* Faulty variant: runNotify never holds a message back.
HeldBack_Never == FALSE

\* Line 167: a message taken while a send is in progress goes to pending.
HeldBack == inProgress

NtInit ==
    /\ ntNext = 0
    /\ notifyCh = <<>>
    /\ pending = <<>>
    /\ inProgress = FALSE
    /\ ntSendPc = [k \in Notes |-> "none"]
    /\ ntHeld = {}

\* Notify: the message is put in notifyCh (capacity 20, never full here).
Notify ==
    /\ ntNext < MaxNotes
    /\ ntNext' = ntNext + 1
    /\ notifyCh' = Append(notifyCh, ntNext + 1)
    /\ UNCHANGED <<pending, inProgress, ntSendPc, ntHeld>>
    /\ UNCHANGED otherThanNt

\* runNotify takes a message from notifyCh (lines 155, 165): it is held
\* back in pending, or inProgress is set and the goroutine that sends it is
\* started (lines 167-185).
RunNotifyReceive ==
    /\ notifyCh # <<>>
    /\ notifyCh' = Tail(notifyCh)
    /\ LET msg == Head(notifyCh) IN
          IF HeldBack
             THEN /\ pending' = Append(pending, msg)
                  /\ ntHeld' = ntHeld \cup {msg}
                  /\ UNCHANGED <<inProgress, ntSendPc>>
             ELSE /\ inProgress' = TRUE
                  /\ ntSendPc' = [ntSendPc EXCEPT ![msg] = "sending"]
                  /\ UNCHANGED <<pending, ntHeld>>
    /\ UNCHANGED ntNext
    /\ UNCHANGED otherThanNt

\* The goroutine: getClient and client.Notify are over, with or without
\* error; the deferred function is at doneCh <- true.
NotifySent ==
    /\ \E k \in Notes :
          /\ ntSendPc[k] = "sending"
          /\ ntSendPc' = [ntSendPc EXCEPT ![k] = "posting"]
    /\ UNCHANGED <<ntNext, notifyCh, pending, inProgress, ntHeld>>
    /\ UNCHANGED otherThanNt

\* runNotify takes doneCh (lines 156-163): inProgress is cleared and the
\* first pending message, if any, is sent next (lines 171-185).
RunNotifyDone ==
    /\ inProgress
    /\ \E k \in Notes :
          /\ ntSendPc[k] = "posting"
          /\ IF pending = <<>>
                THEN /\ inProgress' = FALSE
                     /\ ntSendPc' = [ntSendPc EXCEPT ![k] = "done"]
                     /\ UNCHANGED pending
                ELSE /\ inProgress' = TRUE
                     /\ ntSendPc' = [ntSendPc EXCEPT ![k] = "done",
                                                     ![Head(pending)] = "sending"]
                     /\ pending' = Tail(pending)
    /\ UNCHANGED <<ntNext, notifyCh, ntHeld>>
    /\ UNCHANGED otherThanNt

NtNext ==
    \/ Notify
    \/ RunNotifyReceive
    \/ NotifySent
    \/ RunNotifyDone

Init ==
    /\ DFAInit /\ ShellInit /\ RDInit /\ ExeInit /\ GcInit /\ TSInit
    /\ URInit /\ CSInit /\ NtInit

SpecNotify == Init /\ [][NtNext]_vars

SpecCS == Init /\ [][CSNext]_vars

\* handleTraffic alone starts on an open connection.
TrafficStart ==
    /\ DFAInit /\ ShellInit /\ TrafficInit /\ ExeInit /\ GcInit /\ TSInit
    /\ URInit /\ CSInit /\ NtInit

SpecTraffic == TrafficStart /\ [][TrafficNext]_vars

SpecUR3 == Init /\ [][URNext]_vars

SpecTS == Init /\ [][TSNext]_vars

\* The inputs of AddLineAndHash are drawn in the initial state.
GcStart ==
    /\ DFAInit /\ ShellInit /\ RDInit /\ ExeInit /\ GcInputs /\ TSInit
    /\ URInit /\ CSInit /\ NtInit

SpecGcode == GcStart /\ [][GcNext]_vars

SpecExe == Init /\ [][ExeNext]_vars

SpecShell == Init /\ [][ShellNext]_vars

SpecRD == Init /\ [][RDNext]_vars


Next ==
    \/ HandleDisconnected
    \/ Connect
    \/ HandleConnecting
    \/ HandleConnected
    \/ HandleNormal
    \/ HandleWaitingForOK
    \/ HandleWaitingForWritten
    \/ Write
    \/ ReadEOF
    \/ CallReturn
    \/ CallCancel

Spec == Init /\ [][Next]_vars

\* The actor with the requests left in pendingWrites at a disconnect
\* recorded in heldOver.
HeldStart ==
    /\ DFAStart /\ observe = TRUE
    /\ ShellInit /\ RDInit /\ ExeInit /\ GcInit /\ TSInit
    /\ URInit /\ CSInit /\ NtInit

SpecHeld == HeldStart /\ [][Next]_vars

\* ------------------------------------------------------------------------
\* Properties of the serial downlink actor (specification Spec)
\* ------------------------------------------------------------------------
Range(q) == {q[i] : i \in DOMAIN q}

\* The write tasks that were started and whose MsgWritten the actor has not
\* received yet.
ActiveWrites == {c \in Calls : writerPc[c] # "none"}

NotConnectedStates == {"Connecting", "WaitingForWritten"}

\* The handler Run calls in the current state, applied to one message.
handle(m, late) ==
    CASE st = "Connecting" -> handleConnecting(m)
      [] st = "Normal" -> handleNormal(m)
      [] st = "WaitingForOK" -> handleWaitingForOK(m, late)
      [] st = "WaitingForWritten" -> handleWaitingForWritten(m)
      [] OTHER -> Stay

\* This step is the actor receiving message m.
Takes(m) ==
    /\ st \in {"Connecting", "Normal", "WaitingForOK", "WaitingForWritten"}
    /\ st = "Normal" => Len(pendingWrites) = 0
    /\ m \in Offered
    /\ \E late \in BOOLEAN : Apply(m, handle(m, late))

\* C1: at most one write task is active in every reachable state; while the
\* actor is in WaitingForOK the only write task is the one of the in-flight
\* request (until its MsgWritten is received), in WaitingForWritten it is
\* the one write still to report, and in every other live state there is
\* none, so a write is only ever started from Normal.
C1_AtMostOneWrite ==
    /\ Cardinality(ActiveWrites) <= 1
    /\ st = "WaitingForOK" =>
          ActiveWrites = (IF gotWritten THEN {} ELSE {pendingOKAck})
    /\ st = "WaitingForWritten" => Cardinality(ActiveWrites) = 1
    /\ st \in {"Disconnected", "Connecting", "Connected", "Normal"} =>
          ActiveWrites = {}

\* A write is in progress while two further requests wait in the queue.
C1_Witness ==
    /\ st = "WaitingForOK"
    /\ Cardinality(ActiveWrites) = 1
    /\ Len(pendingWrites) >= 2

\* C2: calls are numbered in the order in which the actor receives their
\* requests; the lines on the wire appear in that order, the queue of
\* pending writes is in that order, and every queued request was received
\* after every request already written or being written.
C2_SubmissionOrder ==
    /\ \A i, j \in DOMAIN wire : i < j => wire[i].call < wire[j].call
    /\ \A i, j \in DOMAIN pendingWrites :
          i < j => pendingWrites[i] < pendingWrites[j]
    /\ \A i \in DOMAIN wire : \A k \in DOMAIN pendingWrites :
          wire[i].call < pendingWrites[k]
    /\ \A k \in DOMAIN pendingWrites :
          pendingOKAck # 0 => pendingOKAck < pendingWrites[k]

\* Two requests were queued behind the first; the first two are on the wire
\* and the third is still queued.
C2_Witness ==
    /\ Len(wire) = 2
    /\ pendingOKAck = 2
    /\ pendingWrites = <<3>>
    /\ callRes[1] = "nil"

\* C3 (as claimed): a call that returned success got exactly one value on
\* its reply channel, and that value was true; a call whose reply channel
\* was closed without a value did not return success.
C3_Claimed ==
    \A c \in Calls :
        /\ callRes[c] = "nil" => chHist[c] = <<TRUE>>
        /\ (chClosed[c] /\ chHist[c] = <<>>) => callRes[c] # "nil"

\* The reply the actor has put on the reply channel of call c.
Reply(c) ==
    IF Len(chBuf[c]) > 0 THEN (IF Head(chBuf[c]) THEN "true" ELSE "false")
    ELSE IF chClosed[c] THEN "closed" ELSE "none"

\* C4 (as claimed): when the actor receives a WriteAndWaitForOK request
\* while it is not connected, the caller is answered with something that
\* makes WriteAndWaitForOK return an error, and the command is neither
\* handed to a write task nor queued.
C4_Claimed ==
    [][\A c \in Calls :
         (st \in NotConnectedStates /\ Takes(WriteMsg(c))) =>
            /\ Reply(c)' # "none"
            /\ ReturnFor(Reply(c)') # "nil"
            /\ writerPc'[c] = "none"
            /\ c \notin Range(pendingWrites')]_vars

\* This step is the actor receiving MsgDisconnected: the reader that was
\* blocked posting it has ended.
TakesDisconnected == readerPc = "posting" /\ readerPc' = "none"

\* C5: a MsgDisconnected received in WaitingForOK closes the reply channel
\* of the in-flight write and leads to WaitingForWritten when MsgWritten
\* has not arrived yet, to Disconnected when it has; WaitingForWritten is
\* left only for Disconnected and only by receiving that MsgWritten; a
\* caller whose channel was closed returns an error (or Canceled).
C5_DisconnectWhileWaiting ==
    /\ [](\A c \in Calls :
            (chClosed[c] /\ callPc[c] = "returned") =>
                callRes[c] \in {"OKNotReceived", "Canceled"})
    /\ [][/\ (st = "WaitingForOK"
                /\ TakesDisconnected) =>
                  /\ chClosed'[pendingOKAck]
                  /\ pendingOKAck' = 0
                  /\ st' = (IF gotWritten THEN "Disconnected"
                            ELSE "WaitingForWritten")
          /\ (st = "WaitingForWritten" /\ st' # "WaitingForWritten") =>
                  /\ st' = "Disconnected"
                  /\ \E c \in Calls :
                        writerPc[c] = "posting" /\ writerPc'[c] = "none"]_vars

\* The link was lost during a write that had not finished; the caller of
\* that write has returned with the error.
C5_Witness ==
    /\ st = "WaitingForWritten"
    /\ \E c \in Calls : chClosed[c] /\ callRes[c] = "OKNotReceived"

\* C6 (as claimed): once the link is lost, the reply channel of every
\* request waiting in the pending-writes queue is closed.
C6_Claimed ==
    st \in {"WaitingForWritten", "Disconnected", "Connecting"} =>
        \A k \in DOMAIN pendingWrites : chClosed[pendingWrites[k]]

\* C7 (as claimed): when the actor receives an OK carrying line number n
\* and that step completes a call (true is put on its reply channel), the
\* request of that call carries the line number n.
C7_Claimed ==
    [][\A n \in 1..MaxLineno : \A c \in Calls :
         (Takes(Msg("OK", n, 0, FALSE))
            /\ chHist'[c] = Append(chHist[c], TRUE)) =>
                WriteMsg(c).lineno = n]_vars

\* ------------------------------------------------------------------------
\* Properties of RealDownlink (specification SpecRD)
\* ------------------------------------------------------------------------
\* C8 (as claimed): an OK for a line number that is not in the history
\* when it arrives acknowledges nothing: it delivers no value to a registered
\* wait, and it does not record the number as acknowledged, so that a
\* WaitForOK registered later is not completed by it.
C8_Claimed ==
    [][\A k \in Linenos :
         hist[k] = NoText =>
            /\ k \in oks' => k \in oks
            /\ \A c \in RDCalls : waits[k] = c =>
                   Len(ackBuf'[c]) <= Len(ackBuf[c])]_vars

\* ------------------------------------------------------------------------
\* Properties of the Shell's job slot (specification SpecShell)
\* ------------------------------------------------------------------------
\* The job goroutines that are in FetchJob or in ExecuteGcode (its abort
\* sequence included).
RunningJobs == {j \in Entries : jobPc[j] \in {"fetch", "exec", "abort"}}

\* C9 (as claimed): at most one job goroutine is running at any time.
C9_Claimed == Cardinality(RunningJobs) <= 1

\* C10: every dispatched fetch-and-print entry has at most one JobDone; a
\* rejected entry has exactly JobDone(false, "job is already running") and
\* no job goroutine; an accepted entry has none while its goroutine runs
\* and exactly one once it has ended, whose success flag is true exactly
\* when FetchJob and ExecuteGcode both returned nil.
C10_OneJobDone ==
    \A e \in Entries :
        /\ entryStatus[e] \in {"none", "cancel"} =>
              jobDone[e] = <<>> /\ jobPc[e] = "none"
        /\ entryStatus[e] = "rejected" =>
              /\ jobDone[e] = <<JobDone(FALSE, "job is already running")>>
              /\ jobPc[e] = "none"
        /\ entryStatus[e] = "accepted" =>
              /\ jobPc[e] # "none"
              /\ jobPc[e] # "done" => jobDone[e] = <<>>
              /\ jobPc[e] = "done" =>
                    /\ Len(jobDone[e]) = 1
                    /\ jobDone[e][1].success =
                          (fetchRes[e] = "nil" /\ execRes[e] = "nil")

\* One entry was rejected, one accepted job ended with success and one
\* ended with an error of ExecuteGcode.
C10_Witness ==
    \E a, b, c \in Entries :
        /\ entryStatus[a] = "rejected"
        /\ jobPc[b] = "done" /\ jobDone[b][1].success
        /\ jobPc[c] = "done" /\ execRes[c] # "nil" /\ fetchRes[c] = "nil"

\* This step is the Shell dispatching the verb cancel.
DispatchesCancel ==
    \E e \in Entries : entryStatus[e] = "none" /\ entryStatus'[e] = "cancel"

\* C11 (as claimed): when the verb cancel is dispatched, the context of
\* every job goroutine that is running and not yet cancelled is cancelled.
C11_Claimed ==
    [][DispatchesCancel =>
          \A j \in RunningJobs : ~ctxDone[j] => ctxDone'[j]]_vars

\* ------------------------------------------------------------------------
\* Properties of Executor.ExecuteGcode (specification SpecExe)
\* ------------------------------------------------------------------------
\* C12 (as claimed): within one call of ExecuteGcode the progress values
\* passed to NotifyJobProgress never decrease, on every path.
C12_Claimed ==
    \A a, b \in DOMAIN progressLog : a < b => progressLog[a] <= progressLog[b]

\* C13 (as claimed): when the context was cancelled while ExecuteGcode was
\* running, ExecuteGcode returns context.Canceled and has by then submitted
\* M107, G1 Z170 F200 and M84, in that order, each under a context that
\* is not the cancelled one.
C13_Claimed ==
    (exePc = "done" /\ exeCtxDone) =>
        /\ exeRes = "context canceled"
        /\ Len(AbortsSubmitted) = Len(AbortCmds)
        /\ \A k \in DOMAIN AbortCmds :
              /\ AbortsSubmitted[k].text = AbortCmds[k]
              /\ AbortsSubmitted[k].ctx = "background"

\* The FrameIndex notifications instruction k of the program has emitted.
FramesOf(k) == SelectSeq(frameLog, LAMBDA f : f.idx = k)

\* C14: no M7820 is handed to WriteAndWaitForOK; an M7820 S<n> the loop has
\* executed has emitted exactly one FrameIndex(n, numFrames), and none
\* before; the notification comes after every device instruction before it
\* was acknowledged and before any instruction after it is submitted.
C14_HostCommands ==
    /\ \A x \in Range(submitted) : x.text # "M7820"
    /\ \A k \in DOMAIN cmds :
          IsHost(cmds[k]) =>
             /\ Len(FramesOf(k)) = (IF exeI >= k THEN 1 ELSE 0)
             /\ \A f \in Range(FramesOf(k)) :
                   /\ f.frame = cmds[k].s
                   /\ f.of = numFrames
                   /\ \A j \in 1..(k - 1) :
                         ~IsHost(cmds[j]) => j \in exeAcked
             /\ \A x \in Range(submitted) :
                   x.idx > k => Len(FramesOf(k)) = 1

\* A program with device instructions around an M7820 ran to its end.
C14_Witness ==
    /\ exePc = "done"
    /\ exeRes = "nil"
    /\ \E k \in DOMAIN cmds :
          /\ IsHost(cmds[k])
          /\ k > 1 /\ ~IsHost(cmds[k - 1])
          /\ k < Len(cmds) /\ ~IsHost(cmds[k + 1])
          /\ Len(FramesOf(k)) = 1

\* ------------------------------------------------------------------------
\* Properties of RealDownlink, continued (specification SpecRD)
\* ------------------------------------------------------------------------
\* The positions on the serial port where line k went out as a resend.
Retransmissions(k) ==
    {i \in DOMAIN rdWire : rdWire[i].resend /\ rdWire[i].text.n = k}

\* C15 (as claimed): however many Resend(k) requests arrive on a
\* connection, the line k of the history is retransmitted at most once.
C15_Claimed ==
    \A k \in Linenos : Cardinality(Retransmissions(k)) <= 1

\* This step is the ResendType case writing its placeholder: a line that
\* is not a resend goes out and no caller moves.
WritesPlaceholder ==
    /\ rdReaderPc = "reading"
    /\ rdCallPc' = rdCallPc
    /\ Len(rdWire') = Len(rdWire) + 1
    /\ ~rdWire'[Len(rdWire')].resend

\* C16 (as claimed): the placeholder written on Resend(k) for a line k
\* that is not in the history is M105 framed at line number k; it is not
\* counted as a resend and the history is left as it was.
C16_Claimed ==
    [][WritesPlaceholder =>
          /\ \E k \in Linenos :
                /\ hist[k] = NoText
                /\ rdWire'[Len(rdWire')].text = Framed(k, "M105")
          /\ ~lastWriteWasAResend'
          /\ resends' = resends
          /\ hist' = hist]_vars

\* This step is the OKType case acknowledging the line after lastOKLineno,
\* as it does for every ok without a line number.
AcksNextLine == lastOKLineno' = lastOKLineno + 1

\* C17 (as claimed): an ok without a line number acknowledges the oldest
\* line that was sent on the connection and is not yet acknowledged, so
\* that no call completes on an ok that was not for its line.
C17_Claimed ==
    [][AcksNextLine => hist[lastOKLineno + 1] # NoText]_vars

\* ------------------------------------------------------------------------
\* Properties of the serial downlink actor, continued (specification Spec)
\* ------------------------------------------------------------------------
\* C18 (as claimed): a write that counts as acknowledged, by an OK or by
\* the implicit acknowledgement after 10 s with some reply and no OK, and
\* whose MsgWritten was received, has had true sent on the reply channel
\* and the actor has left WaitingForOK for Normal.
C18_Claimed ==
    st = "WaitingForOK" => ~(gotOK /\ gotWritten)

\* C19 (as claimed): after WriteAndWaitForOK has returned context.Canceled
\* the actor holds no registration for the call: its reply channel is
\* neither dl.pendingOKAck nor that of a request in dl.pendingWrites.
C19_Claimed ==
    \A c \in Calls :
       callRes[c] = "Canceled" =>
          /\ pendingOKAck # c
          /\ c \notin Range(pendingWrites)

\* C20 (as claimed): on every connection a caller's line is preceded by
\* lines that are not a caller's, the M110 N0 and the encoded M105 that
\* open the connection.
C20_Claimed ==
    \A i \in DOMAIN wire :
       wire[i].call \in Calls =>
          \E j, k \in 1..(i - 1) :
             /\ j < k
             /\ wire[j].conn = wire[i].conn /\ wire[j].call \notin Calls
             /\ wire[k].conn = wire[i].conn /\ wire[k].call \notin Calls

\* C22 (as claimed): whatever the device sends and whenever the link is
\* lost, the actor never calls Fatalf: it never reaches Terminated.
C22_Claimed == st # "Terminated"

\* The actor receives message m: the whole step.
Receives(m) == Takes(m) /\ UNCHANGED otherThanDFA

\* A step by which the connection comes back: the actor starts connect,
\* receives its MsgConnected, starts the reader, or receives the MsgWritten
\* it waits for.  At most one of them is enabled at a time.
Heals ==
    \/ HandleDisconnected
    \/ HandleConnected
    \/ Receives(Msg("Connected", 0, 0, FALSE))
    \/ \E c \in Calls : \E e \in BOOLEAN : Receives(Msg("Written", 0, c, e))

\* Scheduling of the goroutines: Run, connect and write are never starved,
\* and a goroutine parked on its send to dl.reqCh is served once the actor
\* receives (the senders of a channel are queued first in, first out).
\* connect finds and opens the device while the bound allows it.
Fairness ==
    /\ WF_vars(Heals)
    /\ WF_vars(Connect)
    /\ WF_vars(Write)

\* The steps of Next in the behaviours in which no caller's context is
\* cancelled: the ctx.Done() branch of WriteAndWaitForOK only makes the
\* caller return, the actor is not told of it.
NextUncancelled ==
    \/ HandleDisconnected
    \/ Connect
    \/ HandleConnecting
    \/ HandleConnected
    \/ HandleNormal
    \/ HandleWaitingForOK
    \/ HandleWaitingForWritten
    \/ Write
    \/ ReadEOF
    \/ CallReturn

FairSpec == Init /\ [][NextUncancelled]_vars /\ Fairness

\* C21: after a MsgDisconnected, the device being there to be opened
\* again, the actor reaches Normal again.
C21_Heals ==
    (st \in {"Disconnected", "WaitingForWritten"}) ~> (st = "Normal")

\* The link was lost and opened again, and a call written on the second
\* connection received true and returned nil.
C21_Witness ==
    /\ epoch >= 2
    /\ st = "Normal"
    /\ \E c \in Calls :
          /\ callRes[c] = "nil"
          /\ chHist[c] = <<TRUE>>
          /\ \E i \in DOMAIN wire : wire[i] = [conn |-> epoch, call |-> c]

\* ------------------------------------------------------------------------
\* Properties of gcode.AddLineAndHash (specification SpecGcode)
\* ------------------------------------------------------------------------
\* The number a string of decimal digits without a sign denotes; -1 for
\* any other string and for a number written with a leading zero.
RECURSIVE DigitsValue(_)
DigitsValue(d) ==
    IF d = <<>> \/ \E i \in DOMAIN d : d[i] \notin 48..57 THEN -1
    ELSE IF Len(d) > 1 /\ d[1] = 48 THEN -1
    ELSE IF Len(d) = 1 THEN d[1] - 48
    ELSE 10 * DigitsValue(SubSeq(d, 1, Len(d) - 1)) + (d[Len(d)] - 48)

\* Bit k of the XOR of the bytes of p: the parity of the bytes having it.
ParityBit(p, k) ==
    Cardinality({i \in DOMAIN p : (p[i] \div (2 ^ k)) % 2 = 1}) % 2

RECURSIVE XorFold(_, _)
XorFold(p, k) ==
    IF k > 7 THEN 0 ELSE ParityBit(p, k) * (2 ^ k) + XorFold(p, k + 1)

\* C23: AddLineAndHash(n, t) is "N<n> <t>*<c>", c being the decimal value
\* of the 8-bit XOR of all bytes before the star; AddLineAndHash(9,
\* "G28 Z0 F150") is "N9 G28 Z0 F150*2".
C23_AddLineAndHash ==
    gcOut # <<>> =>
       /\ \E a, c \in 1..3 :
             LET p == a + 2 + Len(gcText)
             IN  /\ Len(gcOut) = p + 1 + c
                 /\ gcOut[1] = 78
                 /\ DigitsValue(SubSeq(gcOut, 2, a + 1)) = gcLineno
                 /\ gcOut[a + 2] = 32
                 /\ SubSeq(gcOut, a + 3, p) = gcText
                 /\ gcOut[p + 1] = 42
                 /\ DigitsValue(SubSeq(gcOut, p + 2, p + 1 + c))
                       = XorFold(SubSeq(gcOut, 1, p), 0)
       /\ (gcLineno = 9 /\ gcText = GcExample) =>
             gcOut = <<78, 57, 32, 71, 50, 56, 32, 90, 48, 32, 70, 49, 53,
                       48, 42, 50>>

\* The call of TestAddLineAndHash was made.
C23_Witness ==
    /\ gcLineno = 9
    /\ gcText = GcExample
    /\ gcOut # <<>>

\* ------------------------------------------------------------------------
\* Properties of Shell.processGcodeUpdates (specification SpecTS)
\* ------------------------------------------------------------------------
\* C24: only entries above the high-water mark are dispatched: the ts of
\* the dispatched entries increase strictly (no entry is dispatched
\* twice), those of a call lie above the lastTS the call was given, and
\* the lastTS a call returns is never below the one it was given.
C24_HighWaterMark ==
    /\ [](\A a, b \in DOMAIN tsLog : a < b => tsLog[a] < tsLog[b])
    /\ [](\A j \in DOMAIN tsBatch : tsDoc[tsBatch[j]] > tsArg)
    /\ [][lastTS' >= lastTS]_vars

\* A second document repeats an entry of the first and brings a new one.
C24_Witness ==
    /\ tsArg > 0
    /\ \E i \in DOMAIN tsDoc : tsDoc[i] <= tsArg
    /\ tsBatch # <<>>
    /\ Len(tsLog) > Len(tsBatch)

\* C25 (as claimed): of a document whose entries come in increasing ts,
\* every entry above the lastTS the call was given is dispatched by the
\* call, exactly once, however the verbs before it ended.
C25_Claimed ==
    (\A a, b \in DOMAIN tsDoc : a < b => tsDoc[a] < tsDoc[b]) =>
       \A i \in DOMAIN tsDoc :
          tsDoc[i] > tsArg =>
             Cardinality({j \in DOMAIN tsBatch : tsBatch[j] = i}) = 1

\* ------------------------------------------------------------------------
\* UR3Downlink
\* ------------------------------------------------------------------------
\* C26: a WriteAndWaitForOK of the UR3 downlink whose write was started
\* (accepted in Normal) and that was not cancelled returns success exactly
\* when its write completed without error, and on taking MsgWritten in
\* WaitingForOK the actor is back in Normal.
C26_Claimed ==
    \A c \in URCalls :
       (urCallPc[c] = "returned" /\ urWriteRes[c] # "none"
          /\ urCallRes[c] # "Canceled") =>
          (urCallRes[c] = "nil" <=> urWriteRes[c] = "ok")

\* ------------------------------------------------------------------------
\* RealDownlink: never-ack mode
\* ------------------------------------------------------------------------
\* handleTraffic takes the WaitForOKType request of call c.
AsksWaitForOK(c) == rdCallPc[c] = "wait" /\ rdCallPc'[c] = "waiting"

\* The call's ackCh holds nothing and is open: its waitForOK is blocked.
Blocked(c) == rdCallPc[c] = "waiting" /\ ackBuf[c] = <<>> /\ ~ackClosed[c]

\* C27: once handleTraffic has taken the banner's NeverWaitForOK request,
\* every WaitForOK request is answered at once with false and is not
\* registered, and the waitForOK that receives the false returns nil; before
\* that, a WaitForOK request for a line without OK leaves the caller
\* blocked, and a blocked caller is released only by the OK of its line
\* (true), by a reset (its channel is closed) or by its cancellation.
C27_NeverAck ==
    /\ [][\A c \in RDCalls :
            (AsksWaitForOK(c) /\ neverWaitForOK) =>
               /\ ackBuf'[c] = <<FALSE>>
               /\ waits' = waits]_vars
    /\ [][\A c \in RDCalls :
            (rdCallPc[c] = "waiting" /\ ackBuf[c] = <<FALSE>>
               /\ rdCallPc'[c] = "returned") => rdCallRes'[c] = "nil"]_vars
    /\ [][\A c \in RDCalls :
            (AsksWaitForOK(c) /\ ~neverWaitForOK
               /\ rdCallLineno[c] \notin oks) =>
               /\ ackBuf'[c] = <<>>
               /\ ~ackClosed'[c]]_vars
    /\ [][\A c \in RDCalls :
            (Blocked(c) /\ ~Blocked(c)') =>
               \/ /\ ackBuf'[c] = <<TRUE>>
                  /\ lastOKLineno' = rdCallLineno[c]
                  /\ rdCallLineno[c] \in oks'
               \/ ackClosed'[c] /\ oks' = {} /\ lastOKLineno' = 0
               \/ rdCallPc'[c] = "cancel"]_vars

\* Never-ack mode is on, one call has been answered with false, and a call
\* that was registered before the banner is still blocked.
C27_Witness ==
    /\ neverWaitForOK
    /\ \E c, d \in RDCalls :
          /\ rdCallPc[c] = "waiting" /\ ackBuf[c] = <<FALSE>>
          /\ Blocked(d) /\ waits[rdCallLineno[d]] = d

\* ------------------------------------------------------------------------
\* RealDownlink: reset
\* ------------------------------------------------------------------------
\* handleTraffic takes a ResetType request, from the reader that ended or
\* from a caller whose context is done.
ProcessesReset ==
    \/ rdReaderPc = "posting" /\ rdReaderPc' = "none"
    \/ \E c \in RDCalls : rdCallPc[c] = "cancel" /\ rdCallPc'[c] = "returned"

\* C28: when handleTraffic processes a Reset, the channel of every pending
\* wait is closed and oks, waits, hist, resends and the counters are
\* initialised again in the same step; a caller whose waitForOK finds its
\* channel closed returns ErrConnectionReset.
C28_Claimed ==
    /\ [][ProcessesReset =>
            /\ \A n \in Linenos : waits[n] # 0 => ackClosed'[waits[n]]
            /\ oks' = {}
            /\ waits' = [n \in Linenos |-> 0]
            /\ hist' = [n \in Linenos |-> NoText]
            /\ resends' = {}
            /\ lastWriteWasAResend' = FALSE
            /\ lastResendLineno' = 0
            /\ lastOKLineno' = 0]_vars
    /\ [][\A c \in RDCalls :
            (rdCallPc[c] = "waiting" /\ ackBuf[c] = <<>> /\ ackClosed[c]
               /\ rdCallPc'[c] = "returned") =>
               rdCallRes'[c] = "ErrConnectionReset"]_vars

\* ------------------------------------------------------------------------
\* CombinedSnapshotter
\* ------------------------------------------------------------------------
\* C29: with numFrames = 1 TakeSnapshot returns only after every
\* snapshotter of the map was invoked and has returned, it returns nil
\* exactly when none of them returned an error, and no two goroutines write
\* the map of errors at the same time; with numFrames # 1 it returns an
\* error and invokes no snapshotter.
C29_Claimed ==
    /\ (csPc = "returned" /\ csNumFrames = 1) =>
          /\ \A s \in csSnaps : csSnapPc[s] = "done"
          /\ csRes = "nil" <=> \A s \in csSnaps : ~csSnapErr[s]
    /\ Cardinality(Writing) <= 1
    /\ csPc # "crashed"
    /\ (csPc = "returned" /\ csNumFrames # 1) =>
          /\ csRes = "error"
          /\ \A s \in SnapNames : csSnapPc[s] = "none"

\* ------------------------------------------------------------------------
\* Executor.ExecuteGcode: order of submission and retry
\* ------------------------------------------------------------------------
\* The instructions of the program handed to WriteAndWaitForOK so far, as
\* indices into cmds, in order.
JobSubmissions ==
    LET q == SelectSeq(submitted, LAMBDA x : x.ctx = "job" /\ x.idx > 0)
    IN  [a \in DOMAIN q |-> q[a].idx]

\* The loop hands instruction k to WriteAndWaitForOK.
Submits(k) ==
    /\ k \in DOMAIN cmds
    /\ submitted' = Append(submitted, Sub(cmds[k].text, k, "job"))

\* C30: an instruction is handed to WriteAndWaitForOK only when every
\* device-bound instruction before it has returned success and it has not
\* itself; a WriteAndWaitForOK that returns ends in one of four ways:
\* success and the loop goes to the next instruction; the same instruction
\* is to be written again (the error was not ErrConnectionReset, the
\* context is not done, WaitForConnection returned true); or ExecuteGcode
\* returns ErrConnectionReset, context.Canceled or, WaitForConnection
\* having returned false, ErrNoDownlinkConnection.
C30_InOrder ==
    /\ [][\A k \in DOMAIN cmds :
            Submits(k) =>
               /\ k = exeI + 1
               /\ k \notin exeAcked
               /\ ~IsHost(cmds[k])
               /\ \A j \in 1..(k - 1) : ~IsHost(cmds[j]) => j \in exeAcked]_vars
    /\ [][(exePc = "writing" /\ exePc' # "writing") =>
            \/ /\ exePc' = "loop"
               /\ exeI' = exeI + 1
               /\ exeAcked' = exeAcked \cup {exeI + 1}
            \/ /\ exePc' = "submit"
               /\ exeI' = exeI
               /\ exeAcked' = exeAcked
               /\ ~exeCtxDone
            \/ /\ exePc' = "abort"
               /\ exeI' = exeI
               /\ exeRes' \in {"ErrConnectionReset", "ErrNoDownlinkConnection"}
            \/ /\ exePc' = "abort"
               /\ exeI' = exeI
               /\ exeRes' = "context canceled"
               /\ exeCtxDone]_vars

\* An instruction was written twice and, once it returned success, the
\* one after it was written.
C30_Witness ==
    /\ retries > 0
    /\ \E a \in DOMAIN JobSubmissions :
          /\ a + 2 \in DOMAIN JobSubmissions
          /\ JobSubmissions[a + 1] = JobSubmissions[a]
          /\ JobSubmissions[a + 2] > JobSubmissions[a]
          /\ JobSubmissions[a] \in exeAcked

\* ------------------------------------------------------------------------
\* RealDownlink: backlog replay and line numbers
\* ------------------------------------------------------------------------
\* The lines from..(to - 1) that are still in the history, as resends.
RECURSIVE KeptBacklog(_, _)
KeptBacklog(from, to) ==
    IF from >= to THEN <<>>
    ELSE (IF hist[from] = NoText THEN <<>>
          ELSE <<OnWire(hist[from], TRUE)>>) \o KeptBacklog(from + 1, to)

\* C31: when Send(n) is processed after a resend of line L < n - 1, what
\* goes out is the lines L+1..n-1 that the history still holds, in
\* increasing order, each once and with its text, then line n; a line that
\* is no longer in the history is not written as an empty line.
C31_Claimed ==
    [][(lineno' = lineno + 1 /\ lastWriteWasAResend
          /\ lastResendLineno < lineno) =>
         rdWire' = rdWire \o KeptBacklog(lastResendLineno + 1, lineno + 1)
                          \o <<OnWire(Framed(lineno + 1, lineno + 1), FALSE)>>]_vars

\* The positions on the serial port of this connection that hold the
\* first transmission of a caller's line: after the two lines of Run, not a
\* resend and not the unframed placeholder.
FirstTransmissions ==
    {i \in DOMAIN rdWire : i > 2 /\ ~rdWire[i].resend /\ rdWire[i].text.n > 0}

\* C32: the line of every WriteAndWaitForOK goes out framed with the line
\* number the call was given, and on one connection the first
\* transmissions carry increasing line numbers, also with concurrent callers.
C32_Claimed ==
    /\ \A i \in FirstTransmissions :
          rdWire[i].text.n = rdCallLineno[rdWire[i].text.cmd]
    /\ \A i, j \in FirstTransmissions :
          i < j => rdWire[i].text.n < rdWire[j].text.n

\* C33: between two resets lastOKLineno never decreases, whatever numbered,
\* bare and out-of-order OK messages arrive.
C33_Claimed ==
    [][~ProcessesReset => lastOKLineno' >= lastOKLineno]_vars

\* ------------------------------------------------------------------------
\* Properties of the serial downlink actor, continued (specification Spec)
\* ------------------------------------------------------------------------
\* C34: when the actor takes the MsgWritten of a write that failed it goes
\* to Disconnected, and the caller of that write, unless it was cancelled,
\* returns the connection-reset error: a failed write is never reported to
\* its caller as acknowledged.
C34_Claimed ==
    /\ [][\A c \in Calls :
            (writerPc[c] = "posting" /\ writerPc'[c] # "posting"
               /\ writerErr[c]) => st' = "Disconnected"]_vars
    /\ [](\A c \in Calls :
            (writerErr[c] /\ callPc[c] = "returned"
               /\ callRes[c] # "Canceled") =>
               callRes[c] = "ErrConnectionReset")

\* ------------------------------------------------------------------------
\* Uplink.runNotify
\* ------------------------------------------------------------------------
\* The messages whose send to the cloud client is in progress.
InFlight == {k \in Notes : ntSendPc[k] = "sending"}

\* C35: at most one send to the cloud client is in progress at any time,
\* and the send of a message starts only when no other send is in
\* progress: a message that arrives during a send is held back in pending
\* until that send has finished.
C35_SingleFlight ==
    /\ [](Cardinality(InFlight) <= 1)
    /\ [][\A k \in Notes :
            (ntSendPc[k] = "none" /\ ntSendPc'[k] = "sending") =>
               InFlight = {}]_vars
    /\ [][\A k \in Notes :
            (notifyCh # <<>> /\ Head(notifyCh) = k /\ notifyCh' = Tail(notifyCh)
               /\ InFlight # {}) =>
               /\ pending' = Append(pending, k)
               /\ ntSendPc'[k] = "none"]_vars

\* A message that was held back is being sent after the send before it
\* has finished, and another one is still held back.
C35_Witness ==
    \E j, k \in Notes :
       /\ ntSendPc[j] = "done"
       /\ ntSendPc[k] = "sending"
       /\ k \in ntHeld
       /\ pending # <<>>

\* ------------------------------------------------------------------------
\* Further properties of the serial downlink actor (specification Spec)
\* ------------------------------------------------------------------------
\* The write tasks that have not yet handed their MsgWritten to the actor.
WrittenOwed == {c \in Calls : writerPc[c] \in {"writing", "posting"}}

\* C36: a MsgWritten is received by the actor only in WaitingForOK or
\* WaitingForWritten: while the actor is in any other state no write task
\* is running or blocked posting its MsgWritten, so none can arrive there,
\* and in WaitingForOK no second MsgWritten is owed once the first was
\* received.
C36_WrittenOnlyWhileWaiting ==
    /\ (Alive /\ st \notin {"WaitingForOK", "WaitingForWritten"}) =>
            WrittenOwed = {}
    /\ (st = "WaitingForOK" /\ gotWritten) => WrittenOwed = {}

\* The actor is back in Normal on a second connection after one write was
\* acknowledged and another one failed on the lost link, with the
\* MsgWritten of both received.
C36_Witness ==
    /\ st = "Normal"
    /\ epoch = 2
    /\ WrittenOwed = {}
    /\ \E c, d \in Calls :
          /\ chHist[c] = <<TRUE>>
          /\ chClosed[d]
          /\ writerErr[d]

\* C37: the actor never blocks on and never misuses a reply channel:
\* pendingOKAck is non-nil exactly while the actor is in WaitingForOK, no
\* send or close was ever made on a nil, closed or full channel, and the
\* reply channel of every call got at most one value or one close.
C37_ReplyChannels ==
    /\ Alive => (pendingOKAck # 0 <=> st = "WaitingForOK")
    /\ ~chFault
    /\ \A c \in Calls :
          Len(chHist[c]) + (IF chClosed[c] THEN 1 ELSE 0) <= 1

\* Three calls got their replies in the three ways there are: a true after
\* OK and MsgWritten, a close on the lost link, and a false while the
\* actor was not connected.
C37_Witness ==
    \E c, d, e \in Calls :
       /\ chHist[c] = <<TRUE>>
       /\ chClosed[d]
       /\ chHist[e] = <<FALSE>>
       /\ pendingOKAck = 0
       /\ st = "Normal"

\* C38: a write request that was waiting in pendingWrites when the actor
\* lost the connection is never written to the transport afterwards: no
\* line on the transport belongs to such a request.
C38_Claimed ==
    \A i \in DOMAIN wire : wire[i].call \notin heldOver

\* ------------------------------------------------------------------------
\* RealDownlink: cancellation of one caller
\* ------------------------------------------------------------------------
\* C39: when handleTraffic processes the request a cancelled waitForOK of
\* call c posted, the bookkeeping of every other line is left unchanged:
\* the waits of the other callers stay registered and open, and the
\* history, the acked set and lastOkLineno are not cleared.
C39_Claimed ==
    [][\A c \in RDCalls :
          (rdCallPc[c] = "cancel" /\ rdCallPc'[c] = "returned") =>
             /\ \A n \in Linenos \ {rdCallLineno[c]} :
                   /\ waits'[n] = waits[n]
                   /\ hist'[n] = hist[n]
                   /\ (n \in oks') = (n \in oks)
             /\ \A d \in RDCalls \ {c} : ackClosed'[d] = ackClosed[d]
             /\ lastOKLineno' = lastOKLineno]_vars

\* ------------------------------------------------------------------------
\* Shell: release of the job slot
\* ------------------------------------------------------------------------
\* The job goroutines that were started and have not ended.
LiveJobs == {j \in Entries : jobPc[j] \notin {"none", "done"}}

\* C40: the job slot is always released: once the goroutine of an accepted
\* fetch-and-print job has ended and no job goroutine is running, the slot
\* is free, and a fetch-and-print entry dispatched then is accepted and
\* gets its goroutine instead of "job is already running".
C40_SlotReleased ==
    /\ []((LiveJobs = {} /\ \E j \in Entries : jobPc[j] = "done") =>
            curJobCancel = 0)
    /\ [][\A e \in Entries :
            (/\ LiveJobs = {}
             /\ \E j \in Entries : jobPc[j] = "done"
             /\ entryStatus[e] = "none"
             /\ entryStatus'[e] \in {"accepted", "rejected"}) =>
               /\ entryStatus'[e] = "accepted"
               /\ jobPc'[e] = "fetch"
               /\ curJobCancel' = e]_vars

\* Job d was cancelled and has ended with "context canceled"; the
\* fetch-and-print entry dispatched after its end was accepted and its
\* goroutine is the only one running.
C40_Witness ==
    \E d, e \in Entries :
       /\ d < e
       /\ jobPc[d] = "done"
       /\ jobErr[d] = "context canceled"
       /\ \A k \in Entries : k < e => jobPc[k] \in {"none", "done"}
       /\ entryStatus[e] = "accepted"
       /\ jobPc[e] = "fetch"
       /\ curJobCancel = e

====
